---- MODULE Spec2Model ----
(***************************************************************************)
(* State-machine model of pyne's nuclear data module (data.cpp): the       *)
(* process-wide memoization tables, their bulk loaders and the accessors   *)
(* that look a key up, load on an empty table and fall back to an          *)
(* estimate.                                                               *)
(*                                                                         *)
(* Doubles are modelled by integers (the datasets draw them from small     *)
(* integer sets; (double) of an int is exact).  One accessor call is one   *)
(* action: the program is single-threaded, so a call, with the loads and   *)
(* the recursive calls it makes, runs to completion before the next one.   *)
(***************************************************************************)
EXTENDS Integers, Sequences, FiniteSets, TLC

\* ------------------------------------------------------------------------
\* Bounds of the model
\* ------------------------------------------------------------------------
\* longest /atomic_mass dataset explored
MaxMassRows == 2
\* longest /atomic_mass dataset explored while the reference store comes and goes
MaxErrMassRows == 1
\* longest /decay/gammas dataset explored
MaxGammaRows == 2
\* longest /neutron/wimsd_fission_products dataset explored
MaxWimsRows == 2
\* longest /neutron/nds_fission_products dataset explored
MaxNdsRows == 1
\* call-stack depth at which unbounded self-recursion is cut (a stack overflow)
MaxDepth == 4
\* rows of /decay/half_life
MaxDecayRows == 2
\* rows of /neutron/scattering_lengths
MaxScatRows == 2
\* rows of /decay/level_list
MaxLevelRows == 2
\* rows of /decay/decays
MaxRecRows == 2

\* ------------------------------------------------------------------------
\* Program constants
\* ------------------------------------------------------------------------
\* nucid % 10000 is the state field; (nucid / 10000) * 10000 the ground state
StateMod == 10000
\* (nucid / 10000) % 1000 is the mass number
AnumMod == 1000
\* metastable_id: (nuc / 1000) * 1000 and the width of the block it scans
MetaDiv == 1000
MetaSpan == 9999
\* the range of int
IntMax == 2147483647
IntMin == (-IntMax) - 1

\* ------------------------------------------------------------------------
\* Input universes
\* ------------------------------------------------------------------------
\* canonical nuclide ids ZZZAAASSSS: H-1, H-1 (1st excited), H-2, H-2 (1st excited)
MassRowNucs == {10010000, 10010001, 10020000}
MassQueryNucs == {10010000, 10010001, 10020000, 10020001}
Masses == {5, 7}
Abunds == {0, 2}
\* (parent, daughter) pairs of the fission-yield tables: U-235 to Cs-137, Sr-90
FpyPairs == {<<922350000, 551370000>>, <<922350000, 380900000>>}
WimsYields == {3, 4}
\* the six values of a row of the richer table, all different
NdsValues == {[yield_thermal |-> 11, yield_thermal_err |-> 12,
               yield_fast |-> 13, yield_fast_err |-> 14,
               yield_14MeV |-> 15, yield_14MeV_err |-> 16]}
FpySources == 0..3
\* parents, energies and energy errors of the gamma lines
GammaParents == {10010000, 10020000}
GammaEnergies == {1, 2}
GammaErrs == {0, 1}
\* decay records: parents, daughters, half-lives and branch ratios
RecParents == {10030000, 20030000}
RecDaughters == {10020000, 20040000}
RecHalfLives == {12, 13}
RecHalfLifeErrors == {1}
RecBranchRatios == {1, 2}
\* energies and half-widths of the energy windows queried: two energies of
\* stored lines and one value that is also a parent id
WindowEnergies == {1, 2, 10010000}
WindowErrors == {0, 1}

\* scattering lengths: rows for tritium, helium-4, helium-6, lithium-3 and
\* lithium-7; helium-3, never a row, shares its mass number with tritium
\* (a lower id) and lithium-3 (a higher id) and its charge with helium-4
\* and helium-6
ScatRowNucs == {10030000, 20040000, 20060000, 30030000, 30070000}
ScatQueryNucs == {10030000, 20030000}
ComplexValues == {<<6, 0>>, <<4, 1>>}
\* decay rows: tritium (ground and an excited level) going to helium-3
DecayQueryNucs == {10030000, 20030000}
DecayQueryPairs == {<<10030000, 20030000>>, <<20030000, 10030000>>}
DecayLevels == {0, 1}
DecayConsts == {0, 3, 4}
DecayDaughters == {20030000, 10020000}
BranchRatios == {1, 2}
\* level rows and the metastable indices asked for
LevelRowNucs == {10030000, 10030001, 10030002, 10040001}
LevelQueryNucs == {10030000, 10030001, 10031000}
LevelEnergies == {0, 2}
LevelHalfLives == {12, 13}
MetaStates == {0, 1}

\* sequences over S of length at most n
SeqUpTo(S, n) == UNION {[1..k -> S] : k \in 0..n}

\* ------------------------------------------------------------------------
\* std::map helpers
\* ------------------------------------------------------------------------
EmptyMap == [k \in {} |-> 0]

\* m[k] = v
Put(m, k, v) == [x \in (DOMAIN m) \cup {k} |-> IF x = k THEN v ELSE m[x]]

\* m.empty()
IsEmpty(m) == DOMAIN m = {}

\* ------------------------------------------------------------------------
\* State
\* ------------------------------------------------------------------------
VARIABLES
  store,             \* nuc_data.h5 at NUC_DATA_PATH: "ok", "missing", "nothdf5"
  h5_atomic_mass,    \* rows of the /atomic_mass table of the reference store
  atomic_mass_map,   \* pyne::atomic_mass_map
  natural_abund_map, \* pyne::natural_abund_map
  h5_gammas,         \* rows of the /decay/gammas table
  gamma_data,        \* pyne::gamma_data, keyed (parent_nuc, energy)
  dbl_max_as_int,    \* what this build makes of the conversion (int) DBL_MAX
  h5_wimsd,          \* rows of /neutron/wimsd_fission_products
  h5_nds,            \* rows of /neutron/nds_fission_products
  wimsdfpy_data,     \* pyne::wimsdfpy_data, keyed (from_nuc, to_nuc)
  ndsfpy_data,       \* pyne::ndsfpy_data, keyed (from_nuc, to_nuc)
  h5_scattering,     \* rows of /neutron/scattering_lengths
  b_coherent_map,    \* pyne::b_coherent_map
  b_incoherent_map,  \* pyne::b_incoherent_map
  h5_half_life,      \* rows of /decay/half_life
  decay_maps,        \* pyne::half_life_map (hl), decay_const_map (dc),
                     \* branch_ratio_map (br), state_energy_map (se) and
                     \* decay_children_map (dch)
  h5_level_list,     \* rows of /decay/level_list
  level_data,        \* pyne::level_data, keyed by nuc_id
  ret,               \* the last call: operation, argument, outcome
  watch,             \* history: the (operation, argument) being watched
  first,             \* history: the value the first watched call returned
  loaded,            \* history: per bulk loader, whether it has completed
                     \* successfully never, once or again
  threads,           \* per thread of a concurrent caller: the accessor it
                     \* runs, the statement it stands at, what it has seen
  h5_decays,         \* rows of the /decay/decays table
  decay_data         \* pyne::decay_data, keyed (parent, daughter)

massvars == <<h5_atomic_mass, atomic_mass_map, natural_abund_map>>
gammavars == <<h5_gammas, gamma_data, dbl_max_as_int>>
fpyvars == <<h5_wimsd, h5_nds, wimsdfpy_data, ndsfpy_data>>
scatvars == <<h5_scattering, b_coherent_map, b_incoherent_map>>
decayvars == <<h5_half_life, decay_maps>>
levelvars == <<h5_level_list, level_data>>
histvars == <<watch, first>>
recvars == <<h5_decays, decay_data>>
vars == <<store, massvars, gammavars, fpyvars, scatvars, decayvars, levelvars,
          ret, histvars, loaded, threads, recvars>>

\* ------------------------------------------------------------------------
\* Nuclide ID service (nucname)
\* ------------------------------------------------------------------------
\* nucname::id(int): an id already in canonical form is returned unchanged
nucname_id(nuc) == nuc

\* nucname::znum
nucname_znum(nuc) == nucname_id(nuc) \div (StateMod * AnumMod)

\* nucname::anum
nucname_anum(nuc) == (nucname_id(nuc) \div StateMod) % AnumMod

\* ------------------------------------------------------------------------
\* The exception a loader throws on the state of the reference store
\* ------------------------------------------------------------------------
store_error == IF store = "missing" THEN "FileNotFound" ELSE "FileNotHDF5"

\* ------------------------------------------------------------------------
\* atomic_mass / natural_abund
\* ------------------------------------------------------------------------
RECURSIVE load_mass_rows(_, _, _)
\* the loop that copies the array of structs into both maps
load_mass_rows(rows, am, na) ==
  IF rows = <<>> THEN [am |-> am, na |-> na]
  ELSE load_mass_rows(Tail(rows),
                      Put(am, Head(rows).nuc, Head(rows).mass),
                      Put(na, Head(rows).nuc, Head(rows).abund))

\* mutant: the loader stores each row's two values in the wrong maps
_load_atomic_mass_map_swapped(am, na) ==
  IF store # "ok"
  THEN [am |-> am, na |-> na, status |-> store_error]
  ELSE [am |-> load_mass_rows(h5_atomic_mass, na, am).na,
        na |-> load_mass_rows(h5_atomic_mass, na, am).am,
        status |-> "ok"]

\* _load_atomic_mass_map(): throws before touching the maps when the file is
\* missing or is no HDF5 file, else fills both maps from /atomic_mass
_load_atomic_mass_map(am, na) ==
  IF store # "ok"
  THEN [am |-> am, na |-> na, status |-> store_error]
  ELSE [am |-> load_mass_rows(h5_atomic_mass, am, na).am,
        na |-> load_mass_rows(h5_atomic_mass, am, na).na,
        status |-> "ok"]

\* result of a mass/abundance call: the two maps after it, how it ended, the
\* value returned, and the loader invocations (all / those that threw)
MassRes(am, na, status, val, loads, fails) ==
  [am |-> am, na |-> na, status |-> status, val |-> val,
   loads |-> loads, fails |-> fails]

\* the ground state of an id
ground_id(nucid) == (nucid \div StateMod) * StateMod

\* the best guess based on the aaa number
mass_guess(nucid) == (nucid \div StateMod) % AnumMod

\* the abundance of a nuclide the dataset does not list
abund_guess == 0

RECURSIVE atomic_mass(_, _, _, _)
\* mutant: the excited-state branch returning the ground-state mass without
\* storing it under the excited id
atomic_mass_fallback_nostore(nuc, am, na, depth, loads, fails) ==
  LET nucid == nucname_id(nuc) IN
  IF 0 < nucid % StateMod
  THEN LET g == atomic_mass(ground_id(nucid), am, na, depth - 1) IN
       IF g.status # "ok"
       THEN MassRes(g.am, g.na, g.status, 0, loads + g.loads, fails + g.fails)
       ELSE MassRes(g.am, g.na, "ok", g.val, loads + g.loads, fails + g.fails)
  ELSE MassRes(Put(am, nuc, mass_guess(nucid)), na, "ok", mass_guess(nucid),
               loads, fails)

\* what atomic_mass does once the key is absent and no load helped
atomic_mass_fallback(nuc, am, na, depth, loads, fails) ==
  LET nucid == nucname_id(nuc) IN
  IF 0 < nucid % StateMod
  THEN LET g == atomic_mass(ground_id(nucid), am, na, depth - 1) IN
       IF g.status # "ok"
       THEN MassRes(g.am, g.na, g.status, 0, loads + g.loads, fails + g.fails)
       ELSE MassRes(Put(g.am, nuc, g.val), g.na, "ok", g.val,
                    loads + g.loads, fails + g.fails)
  ELSE MassRes(Put(am, nuc, mass_guess(nucid)), na, "ok", mass_guess(nucid),
               loads, fails)

\* mutant: atomic_mass without its try/catch, a load failure reaches the caller
atomic_mass_nocatch(nuc, am, na, depth) ==
  IF depth = 0 THEN MassRes(am, na, "overflow", 0, 0, 0)
  ELSE IF nuc \in DOMAIN am THEN MassRes(am, na, "ok", am[nuc], 0, 0)
  ELSE IF IsEmpty(am)
  THEN LET l == _load_atomic_mass_map(am, na) IN
       IF l.status = "ok"
       THEN LET r == atomic_mass(nuc, l.am, l.na, depth - 1) IN
            MassRes(r.am, r.na, r.status, r.val, r.loads + 1, r.fails)
       ELSE MassRes(am, na, l.status, 0, 1, 1)
  ELSE atomic_mass_fallback(nuc, am, na, depth, 0, 0)

\* double atomic_mass(int nuc)
atomic_mass(nuc, am, na, depth) ==
  IF depth = 0 THEN MassRes(am, na, "overflow", 0, 0, 0)
  ELSE IF nuc \in DOMAIN am THEN MassRes(am, na, "ok", am[nuc], 0, 0)
  ELSE IF IsEmpty(am)
  THEN LET l == _load_atomic_mass_map(am, na) IN
       IF l.status = "ok"
       THEN LET r == atomic_mass(nuc, l.am, l.na, depth - 1) IN
            MassRes(r.am, r.na, r.status, r.val, r.loads + 1, r.fails)
       ELSE \* catch(...){}: the load failure is swallowed
            atomic_mass_fallback(nuc, am, na, depth, 1, 1)
  ELSE atomic_mass_fallback(nuc, am, na, depth, 0, 0)

RECURSIVE natural_abund(_, _, _, _)
\* mutant: natural_abund without its excited-state branch
natural_abund_fallback_flat(nuc, am, na, depth, loads, fails) ==
  MassRes(am, Put(na, nuc, abund_guess), "ok", abund_guess, loads, fails)

\* what natural_abund does once the key is absent and no load helped; the
\* excited-state branch stores the abundance into atomic_mass_map
natural_abund_fallback(nuc, am, na, depth, loads, fails) ==
  LET nucid == nucname_id(nuc) IN
  IF 0 < nucid % StateMod
  THEN LET g == natural_abund(ground_id(nucid), am, na, depth - 1) IN
       IF g.status # "ok"
       THEN MassRes(g.am, g.na, g.status, 0, loads + g.loads, fails + g.fails)
       ELSE MassRes(Put(g.am, nuc, g.val), g.na, "ok", g.val,
                    loads + g.loads, fails + g.fails)
  ELSE MassRes(am, Put(na, nuc, abund_guess), "ok", abund_guess, loads, fails)

\* double natural_abund(int nuc)
natural_abund(nuc, am, na, depth) ==
  IF depth = 0 THEN MassRes(am, na, "overflow", 0, 0, 0)
  ELSE IF nuc \in DOMAIN na THEN MassRes(am, na, "ok", na[nuc], 0, 0)
  ELSE IF IsEmpty(na)
  THEN LET l == _load_atomic_mass_map(am, na) IN
       IF l.status = "ok"
       THEN LET r == natural_abund(nuc, l.am, l.na, depth - 1) IN
            MassRes(r.am, r.na, r.status, r.val, r.loads + 1, r.fails)
       ELSE \* catch(...){}: the load failure is swallowed
            natural_abund_fallback(nuc, am, na, depth, 1, 1)
  ELSE natural_abund_fallback(nuc, am, na, depth, 0, 0)

\* ------------------------------------------------------------------------
\* Emission lines: gamma
\* ------------------------------------------------------------------------
\* operator< of std::pair: lexicographic
PairLess(a, b) == a[1] < b[1] \/ (a[1] = b[1] /\ a[2] < b[2])

\* the keys of a pair-keyed table in ascending order
RECURSIVE SortedKeys(_)
SortedKeys(S) ==
  IF S = {} THEN <<>>
  ELSE LET m == CHOOSE k \in S : \A j \in S : ~PairLess(j, k)
       IN <<m>> \o SortedKeys(S \ {m})

RECURSIVE load_gamma_rows(_, _)
\* mutant: the loop inserting a row only under a key not stored yet, the
\* first row of a key wins
load_gamma_rows_first_wins(rows, data) ==
  IF rows = <<>> THEN data
  ELSE load_gamma_rows(Tail(rows),
                       IF <<Head(rows).parent_nuc, Head(rows).energy>>
                            \in DOMAIN data
                       THEN data
                       ELSE Put(data,
                                <<Head(rows).parent_nuc, Head(rows).energy>>,
                                Head(rows)))

\* the loop that stores each struct under (parent_nuc, energy)
load_gamma_rows(rows, data) ==
  IF rows = <<>> THEN data
  ELSE load_gamma_rows(Tail(rows),
                       Put(data, <<Head(rows).parent_nuc, Head(rows).energy>>,
                           Head(rows)))

\* _load_data<gamma_struct>()
_load_data_gamma(data) ==
  IF store # "ok"
  THEN [data |-> data, status |-> store_error]
  ELSE [data |-> load_gamma_rows(h5_gammas, data), status |-> "ok"]

\* the keys from data.lower_bound(lo) up to data.upper_bound(hi)
KeysBetween(data, lo, hi) ==
  {k \in DOMAIN data : ~PairLess(k, lo) /\ ~PairLess(hi, k)}

\* data.lower_bound(lo) lies behind data.upper_bound(hi): the loop would run
\* off the end of the map
RangeInverted(data, lo, hi) ==
  \E k \in DOMAIN data : PairLess(hi, k) /\ PairLess(k, lo)

\* the element nuc_iter points at: the first key not less than lo
FirstFrom(data, lo) ==
  CHOOSE k \in DOMAIN data :
    /\ ~PairLess(k, lo)
    /\ \A j \in DOMAIN data : ~PairLess(j, lo) => ~PairLess(j, k)

\* the loop of data_access: one push_back per element of the range, each of
\* them reading the field through nuc_iter, the start of the range
range_values(data, lo, hi, field) ==
  [i \in 1..Cardinality(KeysBetween(data, lo, hi)) |->
     data[FirstFrom(data, lo)][field]]

RECURSIVE data_access_parent_gamma(_, _, _, _)
\* data_access<T, gamma_struct>(int parent, size_t valoffset, gamma_data):
\* the bounds are make_pair(0, parent) and make_pair(DBL_MAX, parent)
\* converted to pair<int, double>
data_access_parent_gamma(parent, field, data, depth) ==
  LET lo == <<0, parent>>
      hi == <<dbl_max_as_int, parent>>
  IN
  IF depth = 0 THEN [data |-> data, status |-> "overflow", val |-> <<>>, loads |-> 0, fails |-> 0]
  ELSE IF RangeInverted(data, lo, hi)
  THEN [data |-> data, status |-> "undefined", val |-> <<>>, loads |-> 0, fails |-> 0]
  ELSE IF IsEmpty(data)
  THEN LET l == _load_data_gamma(data) IN
       IF l.status = "ok"
       THEN LET r == data_access_parent_gamma(parent, field, l.data, depth - 1) IN
            [r EXCEPT !.loads = r.loads + 1]
       ELSE [data |-> data, status |-> l.status, val |-> <<>>, loads |-> 1, fails |-> 1]
  ELSE [data |-> data, status |-> "ok", val |-> range_values(data, lo, hi, field),
        loads |-> 0, fails |-> 0]

\* std::vector<std::pair<double, double> > gamma_energy(int parent)
gamma_energy(parent, data) ==
  LET part1 == data_access_parent_gamma(parent, "energy", data, MaxDepth) IN
  IF part1.status # "ok" THEN part1
  ELSE LET part2 == data_access_parent_gamma(parent, "energy_err", part1.data,
                                             MaxDepth) IN
       IF part2.status # "ok"
       THEN [part2 EXCEPT !.loads = part1.loads + part2.loads,
                          !.fails = part1.fails + part2.fails]
       ELSE [data |-> part2.data, status |-> "ok",
             val |-> [i \in 1..Len(part1.val) |-> <<part1.val[i], part2.val[i]>>],
             loads |-> part1.loads + part2.loads,
             fails |-> part1.fails + part2.fails]

\* the second component of the upper bound of an energy window, the double
\* 9999999999.0: it is represented by the largest number the model holds,
\* which like the original lies above every energy of a stored line
WindowTop == IntMax

\* conversion of a double to int when a pair<double, ...> becomes the
\* pair<int, double> key: exact for an integral value inside the int range,
\* otherwise whatever the build produces for DBL_MAX
int_of_double(x) ==
  IF IntMin <= x /\ x <= IntMax THEN x ELSE dbl_max_as_int

RECURSIVE data_access_window_gamma(_, _, _, _, _)
\* data_access<T, gamma_struct>(double energy_min, double energy_max,
\* size_t valoffset, gamma_data): the bounds are make_pair(energy_min, 0) and
\* make_pair(energy_max, 9999999999) converted to pair<int, double>
data_access_window_gamma(energy_min, energy_max, field, data, depth) ==
  LET lo == <<int_of_double(energy_min), 0>>
      hi == <<int_of_double(energy_max), WindowTop>>
  IN
  IF depth = 0 THEN [data |-> data, status |-> "overflow", val |-> <<>>, loads |-> 0, fails |-> 0]
  ELSE IF RangeInverted(data, lo, hi)
  THEN [data |-> data, status |-> "undefined", val |-> <<>>, loads |-> 0, fails |-> 0]
  ELSE IF IsEmpty(data)
  THEN LET l == _load_data_gamma(data) IN
       IF l.status = "ok"
       THEN LET r == data_access_window_gamma(energy_min, energy_max, field,
                                              l.data, depth - 1) IN
            [r EXCEPT !.loads = r.loads + 1]
       ELSE [data |-> data, status |-> l.status, val |-> <<>>, loads |-> 1, fails |-> 1]
  ELSE [data |-> data, status |-> "ok", val |-> range_values(data, lo, hi, field),
        loads |-> 0, fails |-> 0]

\* std::vector<int> gamma_parent(double energy, double error)
gamma_parent(energy, error, data) ==
  data_access_window_gamma(energy + error, energy - error, "parent_nuc", data,
                           MaxDepth)

\* ------------------------------------------------------------------------
\* Decay records (decay_data)
\* ------------------------------------------------------------------------
RECURSIVE load_decay_records(_, _)
\* the loop that stores each struct under (parent, daughter)
load_decay_records(rows, data) ==
  IF rows = <<>> THEN data
  ELSE load_decay_records(Tail(rows),
                          Put(data, <<Head(rows).parent, Head(rows).daughter>>,
                              Head(rows)))

\* _load_data<decay_struct>()
_load_data_decay(data) ==
  IF store # "ok"
  THEN [data |-> data, status |-> store_error]
  ELSE [data |-> load_decay_records(h5_decays, data), status |-> "ok"]

\* the long 9999999999 converted to the int of the key type: 9999999999 mod 2^32
ParentTop == 1410065407

RECURSIVE data_access_pair_decay(_, _, _, _)
\* data_access<T, decay_struct>(std::pair<int, int> from_to, size_t valoffset,
\* decay_data)
data_access_pair_decay(from_to, field, data, depth) ==
  IF depth = 0 THEN [data |-> data, status |-> "overflow", val |-> 0, loads |-> 0, fails |-> 0]
  ELSE IF from_to \in DOMAIN data
  THEN [data |-> data, status |-> "ok", val |-> data[from_to][field],
        loads |-> 0, fails |-> 0]
  ELSE IF IsEmpty(data)
  THEN LET l == _load_data_decay(data) IN
       IF l.status = "ok"
       THEN LET r == data_access_pair_decay(from_to, field, l.data, depth - 1) IN
            [r EXCEPT !.loads = r.loads + 1]
       ELSE [data |-> l.data, status |-> l.status, val |-> 0, loads |-> 1, fails |-> 1]
  ELSE [data |-> data, status |-> "ok", val |-> 0, loads |-> 0, fails |-> 0]

RECURSIVE data_access_parent_decay(_, _, _, _)
\* data_access<T, decay_struct>(int parent, size_t valoffset, decay_data):
\* the bounds are make_pair(parent, 0) and make_pair(parent, 9999999999)
\* converted to pair<int, int>
data_access_parent_decay(parent, field, data, depth) ==
  LET lo == <<parent, 0>>
      hi == <<parent, ParentTop>>
  IN
  IF depth = 0 THEN [data |-> data, status |-> "overflow", val |-> <<>>, loads |-> 0, fails |-> 0]
  ELSE IF IsEmpty(data)
  THEN LET l == _load_data_decay(data) IN
       IF l.status = "ok"
       THEN LET r == data_access_parent_decay(parent, field, l.data, depth - 1) IN
            [r EXCEPT !.loads = r.loads + 1]
       ELSE [data |-> l.data, status |-> l.status, val |-> <<>>, loads |-> 1, fails |-> 1]
  ELSE [data |-> data, status |-> "ok", val |-> range_values(data, lo, hi, field),
        loads |-> 0, fails |-> 0]

\* std::vector<std::pair<double, double> > decay_half_lifes(int parent)
decay_half_lifes(parent, data) ==
  LET part1 == data_access_parent_decay(parent, "half_life", data, MaxDepth) IN
  IF part1.status # "ok" THEN part1
  ELSE LET part2 == data_access_parent_decay(parent, "half_life_error",
                                             part1.data, MaxDepth) IN
       IF part2.status # "ok"
       THEN [part2 EXCEPT !.loads = part1.loads + part2.loads,
                          !.fails = part1.fails + part2.fails]
       ELSE [data |-> part2.data, status |-> "ok",
             val |-> [i \in 1..Len(part1.val) |-> <<part1.val[i], part2.val[i]>>],
             loads |-> part1.loads + part2.loads,
             fails |-> part1.fails + part2.fails]

\* double decay_branch_ratio(std::pair<int, int> from_to)
decay_branch_ratio(from_to, data) ==
  data_access_pair_decay(from_to, "branch_ratio", data, MaxDepth)

\* std::vector<double> decay_branch_ratios(int parent): the field selected is
\* offsetof(decay_struct, half_life)
decay_branch_ratios(parent, data) ==
  data_access_parent_decay(parent, "half_life", data, MaxDepth)

\* ------------------------------------------------------------------------
\* Fission product yields
\* ------------------------------------------------------------------------
RECURSIVE load_wims_rows(_, _)
\* the loop that stores each yield under (from_nuc, to_nuc)
load_wims_rows(rows, wims) ==
  IF rows = <<>> THEN wims
  ELSE load_wims_rows(Tail(rows),
                      Put(wims, <<Head(rows).from_nuc, Head(rows).to_nuc>>,
                          Head(rows).yields))

\* _load_wimsdfpy()
_load_wimsdfpy(wims) ==
  IF store # "ok"
  THEN [wims |-> wims, status |-> store_error]
  ELSE [wims |-> load_wims_rows(h5_wimsd, wims), status |-> "ok"]

RECURSIVE load_nds_rows(_, _)
\* the loop that stores each ndsfpysub_struct under (from_nuc, to_nuc)
load_nds_rows(rows, nds) ==
  IF rows = <<>> THEN nds
  ELSE load_nds_rows(Tail(rows),
                     Put(nds, <<Head(rows).from_nuc, Head(rows).to_nuc>>,
                         Head(rows).sub))

\* _load_ndsfpy()
_load_ndsfpy(nds) ==
  IF store # "ok"
  THEN [nds |-> nds, status |-> store_error]
  ELSE [nds |-> load_nds_rows(h5_nds, nds), status |-> "ok"]

\* result of a fission-yield call
FpyRes(wims, nds, status, val, loads, fails) ==
  [wims |-> wims, nds |-> nds, status |-> status, val |-> val,
   loads |-> loads, fails |-> fails, wims_loaded |-> 0]

\* mutant: the switch of fpyield without its get_error tests
nds_field_value_only(sub, source, get_error) ==
  CASE source = 1 -> sub.yield_thermal
    [] source = 2 -> sub.yield_fast
    [] source = 3 -> sub.yield_14MeV

\* the switch (source) of fpyield on a record of the richer table
nds_field(sub, source, get_error) ==
  CASE source = 1 -> IF get_error THEN sub.yield_thermal_err ELSE sub.yield_thermal
    [] source = 2 -> IF get_error THEN sub.yield_fast_err ELSE sub.yield_fast
    [] source = 3 -> IF get_error THEN sub.yield_14MeV_err ELSE sub.yield_14MeV

\* the lookup at the head of fpyield finds the pair and returns
fpy_hit(from_to, source, wims, nds) ==
  IF source = 0 THEN from_to \in DOMAIN wims
  ELSE from_to \in DOMAIN nds /\ source \in 1..3

\* mutant: the final fallback storing a zero record in the richer table
fpy_fallback_richer(from_to, wims, nds, loads, fails) ==
  FpyRes(wims,
         Put(nds, from_to,
             [yield_thermal |-> 0, yield_thermal_err |-> 0, yield_fast |-> 0,
              yield_fast_err |-> 0, yield_14MeV |-> 0, yield_14MeV_err |-> 0]),
         "ok", 0, loads, fails)

\* the table the final fallback of fpyield writes its 0.0 to
fpy_fallback(from_to, wims, nds, loads, fails) ==
  FpyRes(Put(wims, from_to, 0), nds, "ok", 0, loads, fails)

RECURSIVE fpyield(_, _, _, _, _, _)
\* mutant: fpyield testing the WIMS table for emptiness whatever the source
fpyield_wims_first(from_to, source, get_error, wims, nds, depth) ==
  IF depth = 0 THEN FpyRes(wims, nds, "overflow", 0, 0, 0)
  ELSE IF fpy_hit(from_to, source, wims, nds)
  THEN FpyRes(wims, nds, "ok",
              IF source = 0 THEN wims[from_to]
              ELSE nds_field(nds[from_to], source, get_error), 0, 0)
  ELSE IF IsEmpty(wims)
  THEN LET l == _load_wimsdfpy(wims) IN
       IF l.status # "ok" THEN FpyRes(wims, nds, l.status, 0, 1, 1)
       ELSE LET r == fpyield(from_to, source, get_error, l.wims, nds,
                             depth - 1) IN
            [r EXCEPT !.loads = r.loads + 1,
                      !.wims_loaded = r.wims_loaded + 1]
  ELSE IF IsEmpty(nds)
  THEN LET l == _load_ndsfpy(nds) IN
       IF l.status # "ok" THEN FpyRes(wims, nds, l.status, 0, 1, 1)
       ELSE LET r == fpyield(from_to, source, get_error, wims, l.nds,
                             depth - 1) IN
            [r EXCEPT !.loads = r.loads + 1]
  ELSE fpy_fallback(from_to, wims, nds, 0, 0)

\* double fpyield(std::pair<int, int> from_to, int source, bool get_error)
fpyield(from_to, source, get_error, wims, nds, depth) ==
  IF depth = 0 THEN FpyRes(wims, nds, "overflow", 0, 0, 0)
  ELSE IF fpy_hit(from_to, source, wims, nds)
  THEN FpyRes(wims, nds, "ok",
              IF source = 0 THEN wims[from_to]
              ELSE nds_field(nds[from_to], source, get_error), 0, 0)
  ELSE IF source = 0 /\ IsEmpty(wims)
  THEN LET l == _load_wimsdfpy(wims) IN
       IF l.status # "ok" THEN FpyRes(l.wims, nds, l.status, 0, 1, 1)
       ELSE LET r == fpyield(from_to, 0, get_error, l.wims, nds, depth - 1) IN
            [r EXCEPT !.loads = r.loads + 1,
                      !.wims_loaded = r.wims_loaded + 1]
  ELSE IF IsEmpty(nds)
  THEN LET l == _load_ndsfpy(nds) IN
       IF l.status # "ok" THEN FpyRes(wims, l.nds, l.status, 0, 1, 1)
       ELSE LET r == fpyield(from_to, source, get_error, wims, l.nds, depth - 1) IN
            [r EXCEPT !.loads = r.loads + 1]
  ELSE fpy_fallback(from_to, wims, nds, 0, 0)

\* ------------------------------------------------------------------------
\* Scattering lengths
\* ------------------------------------------------------------------------
RECURSIVE load_scat_rows(_, _, _)
\* the loop that copies the array of structs into both maps
load_scat_rows(rows, bc, bi) ==
  IF rows = <<>> THEN [bc |-> bc, bi |-> bi]
  ELSE load_scat_rows(Tail(rows),
                      Put(bc, Head(rows).nuc, Head(rows).b_coherent),
                      Put(bi, Head(rows).nuc, Head(rows).b_incoherent))

\* mutant: a loader that copies the rows it holds before it finds out that
\* the store cannot be read
_load_scattering_lengths_partial(bc, bi) ==
  [bc |-> load_scat_rows(h5_scattering, bc, bi).bc,
   bi |-> load_scat_rows(h5_scattering, bc, bi).bi,
   status |-> IF store # "ok" THEN store_error ELSE "ok"]

\* _load_scattering_lengths()
_load_scattering_lengths(bc, bi) ==
  IF store # "ok"
  THEN [bc |-> bc, bi |-> bi, status |-> store_error]
  ELSE [bc |-> load_scat_rows(h5_scattering, bc, bi).bc,
        bi |-> load_scat_rows(h5_scattering, bc, bi).bi,
        status |-> "ok"]

\* the complex zero
complex_zero == <<0, 0>>

\* the key an ascending scan of a std::map meets first among keys
FirstKey(keys) == CHOOSE k \in keys : \A j \in keys : k <= j

\* mutant: the fallback scanning for the atomic number before the mass
\* number
scattering_guess_z_first(nuc, map) ==
  LET SameA == {k \in DOMAIN map : nucname_anum(nuc) = nucname_anum(k)}
      SameZ == {k \in DOMAIN map : nucname_znum(nuc) = nucname_znum(k)}
  IN IF SameZ # {} THEN map[FirstKey(SameZ)]
     ELSE IF SameA # {} THEN map[FirstKey(SameA)]
     ELSE complex_zero

\* mutant: the fallback keeping the last match of each scan, not the first
scattering_guess_last(nuc, map) ==
  LET SameA == {k \in DOMAIN map : nucname_anum(nuc) = nucname_anum(k)}
      SameZ == {k \in DOMAIN map : nucname_znum(nuc) = nucname_znum(k)}
      LastKey(keys) == CHOOSE k \in keys : \A j \in keys : j <= k
  IN IF SameA # {} THEN map[LastKey(SameA)]
     ELSE IF SameZ # {} THEN map[LastKey(SameZ)]
     ELSE complex_zero

\* the value the fallback of b_coherent / b_incoherent picks from its map:
\* the first entry with the same A-number, else the first entry with the
\* same Z-number, else zero
scattering_guess(nuc, map) ==
  LET nucid == nucname_id(nuc)
      znum == nucname_znum(nucid)
      anum == nucname_anum(nucid)
      SameA == {k \in DOMAIN map : anum = nucname_anum(k)}
      SameZ == {k \in DOMAIN map : znum = nucname_znum(k)}
  IN IF SameA # {} THEN map[FirstKey(SameA)]
     ELSE IF SameZ # {} THEN map[FirstKey(SameZ)]
     ELSE complex_zero

\* result of a scattering-length call
ScatRes(bc, bi, status, val, loads, fails) ==
  [bc |-> bc, bi |-> bi, status |-> status, val |-> val,
   loads |-> loads, fails |-> fails]

RECURSIVE b_coherent(_, _, _, _)
\* mutant: b_coherent with the try/catch of atomic_mass around its load, a
\* load failure falls through to the fallback
b_coherent_catch(nuc, bc, bi, depth) ==
  IF depth = 0 THEN ScatRes(bc, bi, "overflow", complex_zero, 0, 0)
  ELSE IF nuc \in DOMAIN bc THEN ScatRes(bc, bi, "ok", bc[nuc], 0, 0)
  ELSE IF IsEmpty(bc) /\ _load_scattering_lengths(bc, bi).status = "ok"
  THEN LET l == _load_scattering_lengths(bc, bi)
           r == b_coherent(nuc, l.bc, l.bi, depth - 1)
       IN [r EXCEPT !.loads = r.loads + 1]
  ELSE ScatRes(Put(bc, nuc, scattering_guess(nuc, bc)), bi, "ok",
               scattering_guess(nuc, bc), IF IsEmpty(bc) THEN 1 ELSE 0,
               IF IsEmpty(bc) THEN 1 ELSE 0)

\* extra_types::complex_t b_coherent(int nuc)
b_coherent(nuc, bc, bi, depth) ==
  IF depth = 0 THEN ScatRes(bc, bi, "overflow", complex_zero, 0, 0)
  ELSE IF nuc \in DOMAIN bc THEN ScatRes(bc, bi, "ok", bc[nuc], 0, 0)
  ELSE IF IsEmpty(bc)
  THEN LET l == _load_scattering_lengths(bc, bi) IN
       IF l.status # "ok" THEN ScatRes(l.bc, l.bi, l.status, complex_zero, 1, 1)
       ELSE LET r == b_coherent(nuc, l.bc, l.bi, depth - 1) IN
            [r EXCEPT !.loads = r.loads + 1]
  ELSE ScatRes(Put(bc, nuc, scattering_guess(nuc, bc)), bi, "ok",
               scattering_guess(nuc, bc), 0, 0)

RECURSIVE b_incoherent(_, _, _, _)
\* mutant: b_incoherent memoizing its fallback in the coherent table
b_incoherent_wrong_map(nuc, bc, bi, depth) ==
  IF depth = 0 THEN ScatRes(bc, bi, "overflow", complex_zero, 0, 0)
  ELSE IF nuc \in DOMAIN bi THEN ScatRes(bc, bi, "ok", bi[nuc], 0, 0)
  ELSE IF IsEmpty(bi)
  THEN LET l == _load_scattering_lengths(bc, bi) IN
       IF l.status # "ok" THEN ScatRes(l.bc, l.bi, l.status, complex_zero, 1, 1)
       ELSE LET r == b_incoherent(nuc, l.bc, l.bi, depth - 1) IN
            [r EXCEPT !.loads = r.loads + 1]
  ELSE ScatRes(Put(bc, nuc, scattering_guess(nuc, bi)), bi, "ok",
               scattering_guess(nuc, bi), 0, 0)

\* extra_types::complex_t b_incoherent(int nuc)
b_incoherent(nuc, bc, bi, depth) ==
  IF depth = 0 THEN ScatRes(bc, bi, "overflow", complex_zero, 0, 0)
  ELSE IF nuc \in DOMAIN bi THEN ScatRes(bc, bi, "ok", bi[nuc], 0, 0)
  ELSE IF IsEmpty(bi)
  THEN LET l == _load_scattering_lengths(bc, bi) IN
       IF l.status # "ok" THEN ScatRes(l.bc, l.bi, l.status, complex_zero, 1, 1)
       ELSE LET r == b_incoherent(nuc, l.bc, l.bi, depth - 1) IN
            [r EXCEPT !.loads = r.loads + 1]
  ELSE ScatRes(bc, Put(bi, nuc, scattering_guess(nuc, bi)), "ok",
               scattering_guess(nuc, bi), 0, 0)

\* ------------------------------------------------------------------------
\* Decay constants, branch ratios, decay children
\* ------------------------------------------------------------------------
\* the five maps before the load
NoDecayMaps == [hl |-> EmptyMap, dc |-> EmptyMap, br |-> EmptyMap,
                se |-> EmptyMap, dch |-> EmptyMap]

\* mutant: the loop body without the precedence test, the last row wins
load_decay_row_last_wins(d, row) ==
  [hl |-> Put(d.hl, row.from_nuc, row.half_life),
   dc |-> Put(d.dc, row.from_nuc, row.decay_const),
   br |-> Put(d.br, <<row.from_nuc, row.to_nuc>>, row.branch_ratio),
   se |-> Put(d.se, row.from_nuc, row.level),
   dch |-> IF 0 # row.decay_const
           THEN Put(d.dch, row.from_nuc,
                    (IF row.from_nuc \in DOMAIN d.dch THEN d.dch[row.from_nuc]
                     ELSE {}) \cup {row.to_nuc})
           ELSE d.dch]

\* one pass of the loop of _load_half_life_decay: ground-state rows and
\* rows seen first take precedence
load_decay_row(d, row) ==
  LET from_nuc == row.from_nuc
      from_to == <<row.from_nuc, row.to_nuc>>
  IN [hl |-> IF from_nuc \notin DOMAIN d.hl \/ 0 = row.level
             THEN Put(d.hl, from_nuc, row.half_life) ELSE d.hl,
      dc |-> IF from_nuc \notin DOMAIN d.dc \/ 0 = row.level
             THEN Put(d.dc, from_nuc, row.decay_const) ELSE d.dc,
      br |-> IF from_to \notin DOMAIN d.br \/ 0 = row.level
             THEN Put(d.br, from_to, row.branch_ratio) ELSE d.br,
      se |-> Put(d.se, from_nuc, row.level),
      dch |-> IF 0 # row.decay_const
              THEN Put(d.dch, from_nuc,
                       (IF from_nuc \in DOMAIN d.dch THEN d.dch[from_nuc] ELSE {})
                         \cup {row.to_nuc})
              ELSE d.dch]

RECURSIVE load_decay_rows(_, _)
load_decay_rows(rows, d) ==
  IF rows = <<>> THEN d
  ELSE load_decay_rows(Tail(rows), load_decay_row(d, Head(rows)))

\* _load_half_life_decay()
_load_half_life_decay(d) ==
  IF store # "ok"
  THEN [d |-> d, status |-> store_error]
  ELSE [d |-> load_decay_rows(h5_half_life, d), status |-> "ok"]

\* result of a call on the decay maps
DecayRes(d, status, val, loads, fails) ==
  [d |-> d, status |-> status, val |-> val, loads |-> loads, fails |-> fails]

RECURSIVE decay_const(_, _, _)
\* mutant: decay_const with the try/catch of atomic_mass around its load, a
\* load failure falls through to the default
decay_const_catch(nuc, d, depth) ==
  IF depth = 0 THEN DecayRes(d, "overflow", 0, 0, 0)
  ELSE IF nuc \in DOMAIN d.dc THEN DecayRes(d, "ok", d.dc[nuc], 0, 0)
  ELSE IF IsEmpty(d.dc) /\ _load_half_life_decay(d).status = "ok"
  THEN LET r == decay_const(nuc, _load_half_life_decay(d).d, depth - 1) IN
       [r EXCEPT !.loads = r.loads + 1]
  ELSE DecayRes([d EXCEPT !.dc = Put(d.dc, nuc, 0)], "ok", 0,
                IF IsEmpty(d.dc) THEN 1 ELSE 0, IF IsEmpty(d.dc) THEN 1 ELSE 0)

\* double decay_const(int nuc)
decay_const(nuc, d, depth) ==
  IF depth = 0 THEN DecayRes(d, "overflow", 0, 0, 0)
  ELSE IF nuc \in DOMAIN d.dc THEN DecayRes(d, "ok", d.dc[nuc], 0, 0)
  ELSE IF IsEmpty(d.dc)
  THEN LET l == _load_half_life_decay(d) IN
       IF l.status # "ok" THEN DecayRes(l.d, l.status, 0, 1, 1)
       ELSE LET r == decay_const(nuc, l.d, depth - 1) IN
            [r EXCEPT !.loads = r.loads + 1]
  ELSE DecayRes([d EXCEPT !.dc = Put(d.dc, nuc, 0)], "ok", 0, 0, 0)

RECURSIVE branch_ratio(_, _, _)
\* double branch_ratio(std::pair<int, int> from_to)
branch_ratio(from_to, d, depth) ==
  IF depth = 0 THEN DecayRes(d, "overflow", 0, 0, 0)
  ELSE IF from_to \in DOMAIN d.br THEN DecayRes(d, "ok", d.br[from_to], 0, 0)
  ELSE IF IsEmpty(d.br)
  THEN LET l == _load_half_life_decay(d) IN
       IF l.status # "ok" THEN DecayRes(l.d, l.status, 0, 1, 1)
       ELSE LET r == branch_ratio(from_to, l.d, depth - 1) IN
            [r EXCEPT !.loads = r.loads + 1]
  ELSE DecayRes([d EXCEPT !.br = Put(d.br, from_to, 0)], "ok", 0, 0, 0)

RECURSIVE decay_children(_, _, _)
\* mutant: decay_children returning its default without storing it
decay_children_nostore(nuc, d, depth) ==
  IF depth = 0 THEN DecayRes(d, "overflow", {}, 0, 0)
  ELSE IF nuc \in DOMAIN d.dch THEN DecayRes(d, "ok", d.dch[nuc], 0, 0)
  ELSE IF IsEmpty(d.dch)
  THEN LET l == _load_half_life_decay(d) IN
       IF l.status # "ok" THEN DecayRes(l.d, l.status, {}, 1, 1)
       ELSE LET r == decay_children(nuc, l.d, depth - 1) IN
            [r EXCEPT !.loads = r.loads + 1]
  ELSE DecayRes(d, "ok", {}, 0, 0)

\* std::set<int> decay_children(int nuc)
decay_children(nuc, d, depth) ==
  IF depth = 0 THEN DecayRes(d, "overflow", {}, 0, 0)
  ELSE IF nuc \in DOMAIN d.dch THEN DecayRes(d, "ok", d.dch[nuc], 0, 0)
  ELSE IF IsEmpty(d.dch)
  THEN LET l == _load_half_life_decay(d) IN
       IF l.status # "ok" THEN DecayRes(l.d, l.status, {}, 1, 1)
       ELSE LET r == decay_children(nuc, l.d, depth - 1) IN
            [r EXCEPT !.loads = r.loads + 1]
  ELSE DecayRes([d EXCEPT !.dch = Put(d.dch, nuc, {})], "ok", {}, 0, 0)

\* ------------------------------------------------------------------------
\* Level data: state energy, half life, metastable ids
\* ------------------------------------------------------------------------
RECURSIVE load_level_rows(_, _)
\* the loop that stores each level_struct under its nuc_id
load_level_rows(rows, data) ==
  IF rows = <<>> THEN data
  ELSE load_level_rows(Tail(rows), Put(data, Head(rows).nuc_id, Head(rows)))

\* _load_level_data()
_load_level_data(data) ==
  IF store # "ok"
  THEN [data |-> data, status |-> store_error]
  ELSE [data |-> load_level_rows(h5_level_list, data), status |-> "ok"]

\* result of a call on the level table
LevelRes(data, status, val, loads, fails) ==
  [data |-> data, status |-> status, val |-> val, loads |-> loads,
   fails |-> fails]

\* int nostate = (nuc / 1000) * 1000
nostate_of(nuc) == (nuc \div MetaDiv) * MetaDiv

\* the scan of metastable_id from lower_bound(nostate) to
\* upper_bound(nostate + 9999): the nuc_id of the first record whose
\* metastable field is m, else 0
metastable_scan(nuc, m, data) ==
  LET InBlock == {k \in DOMAIN data : /\ nostate_of(nuc) <= k
                                       /\ k <= nostate_of(nuc) + MetaSpan
                                       /\ data[k].metastable = m}
  IN IF InBlock # {} THEN data[FirstKey(InBlock)].nuc_id ELSE 0

\* mutant: metastable_id loading the empty table before it looks at m
metastable_id_load_first(nuc, m, data) ==
  IF IsEmpty(data)
  THEN LET l == _load_level_data(data) IN
       IF l.status # "ok" THEN LevelRes(l.data, l.status, 0, 1, 1)
       ELSE LevelRes(l.data, "ok",
                     IF m = 0 THEN 0 ELSE metastable_scan(nuc, m, l.data), 1, 0)
  ELSE LevelRes(data, "ok",
                IF m = 0 THEN 0 ELSE metastable_scan(nuc, m, data), 0, 0)

\* int metastable_id(int nuc, int m)
metastable_id(nuc, m, data) ==
  IF m = 0 THEN LevelRes(data, "ok", 0, 0, 0)
  ELSE IF IsEmpty(data)
  THEN LET l == _load_level_data(data) IN
       IF l.status # "ok" THEN LevelRes(l.data, l.status, 0, 1, 1)
       ELSE LevelRes(l.data, "ok", metastable_scan(nuc, m, l.data), 1, 0)
  ELSE LevelRes(data, "ok", metastable_scan(nuc, m, data), 0, 0)

RECURSIVE state_energy(_, _, _)
\* double state_energy(int nuc): after a load it calls itself and drops the
\* value of that call
state_energy(nuc, data, depth) ==
  IF depth = 0 THEN LevelRes(data, "overflow", 0, 0, 0)
  ELSE IF nuc \in DOMAIN data THEN LevelRes(data, "ok", data[nuc].level, 0, 0)
  ELSE IF IsEmpty(data)
  THEN LET l == _load_level_data(data) IN
       IF l.status # "ok" THEN LevelRes(l.data, l.status, 0, 1, 1)
       ELSE LET r == state_energy(nuc, l.data, depth - 1) IN
            IF r.status # "ok" THEN [r EXCEPT !.loads = r.loads + 1]
            ELSE LevelRes(r.data, "ok", 0, r.loads + 1, r.fails)
  ELSE LevelRes(data, "ok", 0, 0, 0)

RECURSIVE half_life(_, _, _)
\* mutant: half_life memoizing its 0.0 as the decay accessors do
half_life_memoized(nuc, data, depth) ==
  IF depth = 0 THEN LevelRes(data, "overflow", 0, 0, 0)
  ELSE IF nuc \in DOMAIN data THEN LevelRes(data, "ok", data[nuc].half_life, 0, 0)
  ELSE IF IsEmpty(data)
  THEN LET l == _load_level_data(data) IN
       IF l.status # "ok" THEN LevelRes(l.data, l.status, 0, 1, 1)
       ELSE LET r == half_life(nuc, l.data, depth - 1) IN
            [r EXCEPT !.loads = r.loads + 1]
  ELSE LevelRes(Put(data, nuc, [nuc_id |-> nuc, level |-> 0, half_life |-> 0,
                                metastable |-> 0]), "ok", 0, 0, 0)

\* mutant: half_life dropping the value of its retry as state_energy does
half_life_dropped(nuc, data, depth) ==
  IF depth = 0 THEN LevelRes(data, "overflow", 0, 0, 0)
  ELSE IF nuc \in DOMAIN data THEN LevelRes(data, "ok", data[nuc].half_life, 0, 0)
  ELSE IF IsEmpty(data)
  THEN LET l == _load_level_data(data) IN
       IF l.status # "ok" THEN LevelRes(l.data, l.status, 0, 1, 1)
       ELSE LET r == half_life(nuc, l.data, depth - 1) IN
            IF r.status # "ok" THEN [r EXCEPT !.loads = r.loads + 1]
            ELSE LevelRes(r.data, "ok", 0, r.loads + 1, r.fails)
  ELSE LevelRes(data, "ok", 0, 0, 0)

\* double half_life(int nuc)
half_life(nuc, data, depth) ==
  IF depth = 0 THEN LevelRes(data, "overflow", 0, 0, 0)
  ELSE IF nuc \in DOMAIN data THEN LevelRes(data, "ok", data[nuc].half_life, 0, 0)
  ELSE IF IsEmpty(data)
  THEN LET l == _load_level_data(data) IN
       IF l.status # "ok" THEN LevelRes(l.data, l.status, 0, 1, 1)
       ELSE LET r == half_life(nuc, l.data, depth - 1) IN
            [r EXCEPT !.loads = r.loads + 1]
  ELSE LevelRes(data, "ok", 0, 0, 0)

\* ------------------------------------------------------------------------
\* Calls
\* ------------------------------------------------------------------------
NoCall == [op |-> "none", arg |-> 0, status |-> "ok", val |-> 0,
           loads |-> 0, fails |-> 0]

\* the record of a finished call
Call(op, arg, r) ==
  [op |-> op, arg |-> arg, status |-> r.status, val |-> r.val,
   loads |-> r.loads, fails |-> r.fails]

\* the process is alive: no call has overflowed the stack
Alive == ret.status # "overflow"

\* the calls nobody watches
NoWatch == <<"none", 0>>

\* remember the value of the first returning call of the watched (op, arg)
Remember(op, arg, r) ==
  IF op = watch[1] /\ arg = watch[2] /\ r.status = "ok" /\ IsEmpty(first)
  THEN Put(first, <<op, arg>>, r.val)
  ELSE first

\* the bulk loaders
Loaders == {"_load_atomic_mass_map", "_load_scattering_lengths",
            "_load_wimsdfpy", "_load_ndsfpy", "_load_half_life_decay",
            "_load_level_data", "_load_data_gamma", "_load_data_decay"}

\* the history of a loader after n more successful completions
after_loads(was, n) ==
  IF n = 0 THEN was
  ELSE IF was = "never" /\ n = 1 THEN "once"
  ELSE "again"

\* the history after a call during which `loader` completed n times
Completed(loader, n) ==
  [loaded EXCEPT ![loader] = after_loads(@, n)]

\* a caller calls atomic_mass(nuc)
AtomicMassCall ==
  /\ Alive
  /\ \E nuc \in MassQueryNucs :
       LET r == atomic_mass(nuc, atomic_mass_map, natural_abund_map, MaxDepth) IN
       /\ atomic_mass_map' = r.am
       /\ natural_abund_map' = r.na
       /\ ret' = Call("atomic_mass", nuc, r)
       /\ loaded' = Completed("_load_atomic_mass_map", r.loads - r.fails)
       /\ first' = Remember("atomic_mass", nuc, r)
  /\ UNCHANGED <<store, h5_atomic_mass, gammavars, fpyvars, scatvars, decayvars,
                 levelvars, watch, threads, recvars>>

\* a caller calls natural_abund(nuc)
NaturalAbundCall ==
  /\ Alive
  /\ \E nuc \in MassQueryNucs :
       LET r == natural_abund(nuc, atomic_mass_map, natural_abund_map, MaxDepth) IN
       /\ atomic_mass_map' = r.am
       /\ natural_abund_map' = r.na
       /\ ret' = Call("natural_abund", nuc, r)
       /\ loaded' = Completed("_load_atomic_mass_map", r.loads - r.fails)
       /\ first' = Remember("natural_abund", nuc, r)
  /\ UNCHANGED <<store, h5_atomic_mass, gammavars, fpyvars, scatvars, decayvars,
                 levelvars, watch, threads, recvars>>

\* a caller calls gamma_energy(parent)
GammaEnergyCall ==
  /\ Alive
  /\ \E parent \in GammaParents :
       LET r == gamma_energy(parent, gamma_data) IN
       /\ gamma_data' = r.data
       /\ ret' = Call("gamma_energy", parent, r)
       /\ loaded' = Completed("_load_data_gamma", r.loads - r.fails)
  /\ UNCHANGED <<store, massvars, h5_gammas, dbl_max_as_int, fpyvars, scatvars,
                 decayvars, levelvars, histvars, threads, recvars>>

\* a caller calls gamma_parent(energy, error)
GammaParentCall ==
  /\ Alive
  /\ \E energy \in WindowEnergies, error \in WindowErrors :
       LET r == gamma_parent(energy, error, gamma_data) IN
       /\ gamma_data' = r.data
       /\ ret' = Call("gamma_parent", <<energy, error>>, r)
       /\ loaded' = Completed("_load_data_gamma", r.loads - r.fails)
  /\ UNCHANGED <<store, massvars, h5_gammas, dbl_max_as_int, fpyvars, scatvars,
                 decayvars, levelvars, histvars, threads, recvars>>

\* a caller calls fpyield(from_to, source, get_error)
FpyieldCall ==
  /\ Alive
  /\ \E from_to \in FpyPairs, source \in FpySources, get_error \in BOOLEAN :
       LET r == fpyield(from_to, source, get_error, wimsdfpy_data, ndsfpy_data,
                        MaxDepth) IN
       /\ wimsdfpy_data' = r.wims
       /\ ndsfpy_data' = r.nds
       /\ ret' = Call("fpyield", <<from_to, source, get_error>>, r)
       /\ loaded' = [loaded EXCEPT
                      !["_load_wimsdfpy"] = after_loads(@, r.wims_loaded),
                      !["_load_ndsfpy"] =
                        after_loads(@, r.loads - r.fails - r.wims_loaded)]
       /\ first' = Remember("fpyield", <<from_to, source, get_error>>, r)
  /\ UNCHANGED <<store, massvars, gammavars, h5_wimsd, h5_nds, scatvars,
                 decayvars, levelvars, watch, threads, recvars>>

\* a caller calls b_coherent(nuc)
BCoherentCall ==
  /\ Alive
  /\ \E nuc \in ScatQueryNucs :
       LET r == b_coherent(nuc, b_coherent_map, b_incoherent_map, MaxDepth) IN
       /\ b_coherent_map' = r.bc
       /\ b_incoherent_map' = r.bi
       /\ ret' = Call("b_coherent", nuc, r)
       /\ first' = Remember("b_coherent", nuc, r)
       /\ loaded' = Completed("_load_scattering_lengths", r.loads - r.fails)
  /\ UNCHANGED <<store, massvars, gammavars, fpyvars, h5_scattering, decayvars,
                 levelvars, watch, threads, recvars>>

\* a caller calls b_incoherent(nuc)
BIncoherentCall ==
  /\ Alive
  /\ \E nuc \in ScatQueryNucs :
       LET r == b_incoherent(nuc, b_coherent_map, b_incoherent_map, MaxDepth) IN
       /\ b_coherent_map' = r.bc
       /\ b_incoherent_map' = r.bi
       /\ ret' = Call("b_incoherent", nuc, r)
       /\ first' = Remember("b_incoherent", nuc, r)
       /\ loaded' = Completed("_load_scattering_lengths", r.loads - r.fails)
  /\ UNCHANGED <<store, massvars, gammavars, fpyvars, h5_scattering, decayvars,
                 levelvars, watch, threads, recvars>>

\* a caller calls decay_const(nuc)
DecayConstCall ==
  /\ Alive
  /\ \E nuc \in DecayQueryNucs :
       LET r == decay_const(nuc, decay_maps, MaxDepth) IN
       /\ decay_maps' = r.d
       /\ ret' = Call("decay_const", nuc, r)
       /\ first' = Remember("decay_const", nuc, r)
       /\ loaded' = Completed("_load_half_life_decay", r.loads - r.fails)
  /\ UNCHANGED <<store, massvars, gammavars, fpyvars, scatvars, h5_half_life,
                 levelvars, watch, threads, recvars>>

\* a caller calls branch_ratio(from_to)
BranchRatioCall ==
  /\ Alive
  /\ \E from_to \in DecayQueryPairs :
       LET r == branch_ratio(from_to, decay_maps, MaxDepth) IN
       /\ decay_maps' = r.d
       /\ ret' = Call("branch_ratio", from_to, r)
       /\ first' = Remember("branch_ratio", from_to, r)
       /\ loaded' = Completed("_load_half_life_decay", r.loads - r.fails)
  /\ UNCHANGED <<store, massvars, gammavars, fpyvars, scatvars, h5_half_life,
                 levelvars, watch, threads, recvars>>

\* a caller calls decay_children(nuc)
DecayChildrenCall ==
  /\ Alive
  /\ \E nuc \in DecayQueryNucs :
       LET r == decay_children(nuc, decay_maps, MaxDepth) IN
       /\ decay_maps' = r.d
       /\ ret' = Call("decay_children", nuc, r)
       /\ loaded' = Completed("_load_half_life_decay", r.loads - r.fails)
  /\ UNCHANGED <<store, massvars, gammavars, fpyvars, scatvars, h5_half_life,
                 levelvars, histvars, threads, recvars>>

\* a caller calls half_life(nuc)
HalfLifeCall ==
  /\ Alive
  /\ \E nuc \in LevelQueryNucs :
       LET r == half_life(nuc, level_data, MaxDepth) IN
       /\ level_data' = r.data
       /\ ret' = Call("half_life", nuc, r)
       /\ loaded' = Completed("_load_level_data", r.loads - r.fails)
  /\ UNCHANGED <<store, massvars, gammavars, fpyvars, scatvars, decayvars,
                 h5_level_list, histvars, threads, recvars>>

\* a caller calls state_energy(nuc)
StateEnergyCall ==
  /\ Alive
  /\ \E nuc \in LevelQueryNucs :
       LET r == state_energy(nuc, level_data, MaxDepth) IN
       /\ level_data' = r.data
       /\ ret' = Call("state_energy", nuc, r)
       /\ loaded' = Completed("_load_level_data", r.loads - r.fails)
  /\ UNCHANGED <<store, massvars, gammavars, fpyvars, scatvars, decayvars,
                 h5_level_list, histvars, threads, recvars>>

\* a caller calls metastable_id(nuc, m)
MetastableIdCall ==
  /\ Alive
  /\ \E nuc \in LevelQueryNucs, m \in MetaStates :
       LET r == metastable_id(nuc, m, level_data) IN
       /\ level_data' = r.data
       /\ ret' = Call("metastable_id", <<nuc, m>>, r)
       /\ loaded' = Completed("_load_level_data", r.loads - r.fails)
  /\ UNCHANGED <<store, massvars, gammavars, fpyvars, scatvars, decayvars,
                 h5_level_list, histvars, threads, recvars>>

\* a caller calls decay_half_lifes(parent)
DecayHalfLifesCall ==
  /\ Alive
  /\ \E parent \in RecParents :
       LET r == decay_half_lifes(parent, decay_data) IN
       /\ decay_data' = r.data
       /\ ret' = Call("decay_half_lifes", parent, r)
       /\ loaded' = Completed("_load_data_decay", r.loads - r.fails)
  /\ UNCHANGED <<store, massvars, gammavars, fpyvars, scatvars, decayvars,
                 levelvars, histvars, threads, h5_decays>>

\* a caller calls decay_branch_ratio(from_to)
DecayBranchRatioCall ==
  /\ Alive
  /\ \E from_to \in RecParents \X RecDaughters :
       LET r == decay_branch_ratio(from_to, decay_data) IN
       /\ decay_data' = r.data
       /\ ret' = Call("decay_branch_ratio", from_to, r)
       /\ loaded' = Completed("_load_data_decay", r.loads - r.fails)
  /\ UNCHANGED <<store, massvars, gammavars, fpyvars, scatvars, decayvars,
                 levelvars, histvars, threads, h5_decays>>

\* a caller calls decay_branch_ratios(parent)
DecayBranchRatiosCall ==
  /\ Alive
  /\ \E parent \in RecParents :
       LET r == decay_branch_ratios(parent, decay_data) IN
       /\ decay_data' = r.data
       /\ ret' = Call("decay_branch_ratios", parent, r)
       /\ loaded' = Completed("_load_data_decay", r.loads - r.fails)
  /\ UNCHANGED <<store, massvars, gammavars, fpyvars, scatvars, decayvars,
                 levelvars, histvars, threads, h5_decays>>

\* ------------------------------------------------------------------------
\* Two unsynchronized callers of one accessor, statement by statement
\* ------------------------------------------------------------------------
Threads == {1, 2}

\* the accessors run concurrently
ThreadOps == {"decay_const", "b_coherent"}

\* a thread outside every accessor
NoThread == [pc |-> "out", op |-> "none", arg |-> 0, saw_empty |-> FALSE,
             depth |-> 0]

\* a thread entering op(arg)
Entering(op, arg) ==
  [pc |-> "find", op |-> op, arg |-> arg, saw_empty |-> FALSE, depth |-> 0]

\* the table the accessor searches and tests for emptiness
thread_table(op) ==
  IF op = "decay_const" THEN decay_maps.dc ELSE b_coherent_map

\* the bulk loader of the accessor
thread_loader(op) ==
  IF op = "decay_const" THEN "_load_half_life_decay"
  ELSE "_load_scattering_lengths"

\* mutant: the load statement testing the table once more before it loads
thread_load_rechecked(op, bc, bi, d) ==
  IF op = "decay_const"
  THEN IF IsEmpty(d.dc)
       THEN [bc |-> bc, bi |-> bi, d |-> _load_half_life_decay(d).d, ran |-> 1]
       ELSE [bc |-> bc, bi |-> bi, d |-> d, ran |-> 0]
  ELSE IF IsEmpty(bc)
       THEN LET l == _load_scattering_lengths(bc, bi) IN
            [bc |-> l.bc, bi |-> l.bi, d |-> d, ran |-> 1]
       ELSE [bc |-> bc, bi |-> bi, d |-> d, ran |-> 0]

\* the load statement inside the emptiness branch: _load_half_life_decay()
\* or _load_scattering_lengths(), run whatever the table holds by now
thread_load(op, bc, bi, d) ==
  IF op = "decay_const"
  THEN [bc |-> bc, bi |-> bi, d |-> _load_half_life_decay(d).d, ran |-> 1]
  ELSE LET l == _load_scattering_lengths(bc, bi) IN
       [bc |-> l.bc, bi |-> l.bi, d |-> d, ran |-> 1]

\* thread t runs map.find(nuc) and the test of its result
ThreadFind(t) ==
  /\ threads[t].pc = "find"
  /\ threads' = [threads EXCEPT ![t].pc =
                   IF threads[t].arg \in DOMAIN thread_table(threads[t].op)
                   THEN "returned" ELSE "test"]
  /\ UNCHANGED <<store, massvars, gammavars, fpyvars, scatvars, decayvars,
                 levelvars, ret, histvars, loaded, recvars>>

\* thread t runs the test map.empty()
ThreadTestEmpty(t) ==
  /\ threads[t].pc = "test"
  /\ threads' = [threads EXCEPT ![t] =
                   IF IsEmpty(thread_table(threads[t].op))
                   THEN [@ EXCEPT !.pc = "load", !.saw_empty = TRUE]
                   ELSE [@ EXCEPT !.pc = "fallback"]]
  /\ UNCHANGED <<store, massvars, gammavars, fpyvars, scatvars, decayvars,
                 levelvars, ret, histvars, loaded, recvars>>

\* thread t runs the bulk loader and calls the accessor again
ThreadLoad(t) ==
  /\ threads[t].pc = "load"
  /\ LET l == thread_load(threads[t].op, b_coherent_map, b_incoherent_map,
                          decay_maps) IN
     /\ b_coherent_map' = l.bc
     /\ b_incoherent_map' = l.bi
     /\ decay_maps' = l.d
     /\ loaded' = Completed(thread_loader(threads[t].op), l.ran)
  /\ threads' = [threads EXCEPT ![t].depth = @ + 1,
                                ![t].pc = IF threads[t].depth + 1 < MaxDepth
                                          THEN "find" ELSE "overflow"]
  /\ UNCHANGED <<store, massvars, gammavars, fpyvars, h5_scattering,
                 h5_half_life, levelvars, ret, histvars, recvars>>

\* thread t computes the fallback value, stores it under its key and returns
ThreadFallback(t) ==
  /\ threads[t].pc = "fallback"
  /\ IF threads[t].op = "decay_const"
     THEN /\ decay_maps' = [decay_maps EXCEPT
                              !.dc = Put(@, threads[t].arg, 0)]
          /\ UNCHANGED b_coherent_map
     ELSE /\ b_coherent_map' =
               Put(b_coherent_map, threads[t].arg,
                   scattering_guess(threads[t].arg, b_coherent_map))
          /\ UNCHANGED decay_maps
  /\ threads' = [threads EXCEPT ![t].pc = "returned"]
  /\ UNCHANGED <<store, massvars, gammavars, fpyvars, h5_scattering,
                 b_incoherent_map, h5_half_life, levelvars, ret, histvars,
                 loaded, recvars>>

\* the environment replaces, removes or restores the file at NUC_DATA_PATH
SetStore ==
  /\ Alive
  /\ \E s \in {"ok", "missing", "nothdf5"} : s # store /\ store' = s
  /\ UNCHANGED <<massvars, gammavars, fpyvars, scatvars, decayvars, levelvars,
                 ret, histvars, loaded, threads, recvars>>

\* ------------------------------------------------------------------------
\* Specifications
\* ------------------------------------------------------------------------
MassRows == [nuc : MassRowNucs, mass : Masses, abund : Abunds]

GammaRows == [parent_nuc : GammaParents, energy : GammaEnergies,
              energy_err : GammaErrs]

WimsRows == {[from_nuc |-> p[1], to_nuc |-> p[2], yields |-> y] :
               p \in FpyPairs, y \in WimsYields}
NdsRows == {[from_nuc |-> p[1], to_nuc |-> p[2], sub |-> v] :
              p \in FpyPairs, v \in NdsValues}
\* rows of the richer table that differ in their values
NdsAltValues == {[yield_thermal |-> 21, yield_thermal_err |-> 22,
                  yield_fast |-> 23, yield_fast_err |-> 24,
                  yield_14MeV |-> 25, yield_14MeV_err |-> 26]}
NdsLoadRows == {[from_nuc |-> p[1], to_nuc |-> p[2], sub |-> v] :
                  p \in FpyPairs, v \in NdsValues \cup NdsAltValues}

\* process start: every table is empty and nothing was called
EmptyTables ==
  /\ atomic_mass_map = EmptyMap
  /\ natural_abund_map = EmptyMap
  /\ gamma_data = EmptyMap
  /\ wimsdfpy_data = EmptyMap
  /\ ndsfpy_data = EmptyMap
  /\ b_coherent_map = EmptyMap
  /\ b_incoherent_map = EmptyMap
  /\ decay_maps = NoDecayMaps
  /\ level_data = EmptyMap
  /\ ret = NoCall
  /\ first = EmptyMap
  /\ loaded = [l \in Loaders |-> "never"]
  /\ decay_data = EmptyMap

\* one caller at a time: no thread stands inside an accessor
InitTables ==
  /\ EmptyTables
  /\ threads = [t \in Threads |-> NoThread]

\* the datasets a specification does not exercise hold no rows
NoMassData == h5_atomic_mass = <<>>
NoGammaData == h5_gammas = <<>> /\ dbl_max_as_int = IntMax
NoFpyData == h5_wimsd = <<>> /\ h5_nds = <<>>
NoScatData == h5_scattering = <<>>
NoDecayData == h5_half_life = <<>>
NoLevelData == h5_level_list = <<>>
NoRecData == h5_decays = <<>>

ScatRows == [nuc : ScatRowNucs, b_coherent : ComplexValues,
             b_incoherent : ComplexValues]
DecayRows == [from_nuc : {10030000}, level : DecayLevels,
              to_nuc : DecayDaughters, half_life : {12},
              decay_const : DecayConsts, branch_ratio : BranchRatios]
LevelRows == [nuc_id : LevelRowNucs, level : LevelEnergies,
              half_life : LevelHalfLives, metastable : MetaStates]
DecayRecRows == [parent : RecParents, daughter : RecDaughters,
                 half_life : RecHalfLives,
                 half_life_error : RecHalfLifeErrors,
                 branch_ratio : RecBranchRatios]

\* mass and abundance, reference store available throughout
InitMass ==
  /\ store = "ok"
  /\ h5_atomic_mass \in SeqUpTo(MassRows, MaxMassRows)
  /\ NoGammaData
  /\ NoFpyData
  /\ NoScatData
  /\ NoDecayData
  /\ NoLevelData
  /\ NoRecData
  /\ InitTables
  /\ watch \in {<<"atomic_mass", nuc>> : nuc \in MassQueryNucs}

NextMass == AtomicMassCall \/ NaturalAbundCall

SpecMass == InitMass /\ [][NextMass]_vars

\* mass and abundance, the reference store coming and going between calls
InitMassErr ==
  /\ store \in {"ok", "missing", "nothdf5"}
  /\ h5_atomic_mass \in SeqUpTo(MassRows, MaxErrMassRows)
  /\ NoGammaData
  /\ NoFpyData
  /\ NoScatData
  /\ NoDecayData
  /\ NoLevelData
  /\ NoRecData
  /\ InitTables
  /\ watch = NoWatch

NextMassErr == AtomicMassCall \/ NaturalAbundCall \/ SetStore

SpecMassErr == InitMassErr /\ [][NextMassErr]_vars

\* gamma lines by parent, reference store available throughout
InitGamma ==
  /\ store = "ok"
  /\ h5_gammas \in SeqUpTo(GammaRows, MaxGammaRows)
  /\ dbl_max_as_int \in {IntMin, IntMax}
  /\ NoMassData
  /\ NoFpyData
  /\ NoScatData
  /\ NoDecayData
  /\ NoLevelData
  /\ NoRecData
  /\ InitTables
  /\ watch = NoWatch

NextGamma == GammaEnergyCall \/ GammaParentCall

SpecGamma == InitGamma /\ [][NextGamma]_vars

\* fission yields, reference store available throughout
InitFpy ==
  /\ store = "ok"
  /\ h5_wimsd \in SeqUpTo(WimsRows, MaxWimsRows)
  /\ h5_nds \in SeqUpTo(NdsRows, MaxNdsRows)
  /\ NoMassData
  /\ NoGammaData
  /\ NoScatData
  /\ NoDecayData
  /\ NoLevelData
  /\ NoRecData
  /\ InitTables
  /\ watch \in {<<"fpyield", <<p, src, e>>>> :
                  p \in FpyPairs, src \in FpySources, e \in BOOLEAN}

NextFpy == FpyieldCall

SpecFpy == InitFpy /\ [][NextFpy]_vars

\* decay constants, branch ratios and children, reference store available
\* throughout
InitDecay ==
  /\ store = "ok"
  /\ h5_half_life \in SeqUpTo(DecayRows, MaxDecayRows)
  /\ NoMassData
  /\ NoGammaData
  /\ NoFpyData
  /\ NoScatData
  /\ NoLevelData
  /\ NoRecData
  /\ InitTables
  /\ watch = NoWatch

NextDecay == DecayConstCall \/ BranchRatioCall \/ DecayChildrenCall

SpecDecay == InitDecay /\ [][NextDecay]_vars

\* scattering lengths, reference store available throughout
InitScat ==
  /\ store = "ok"
  /\ h5_scattering \in SeqUpTo(ScatRows, MaxScatRows)
  /\ NoMassData
  /\ NoGammaData
  /\ NoFpyData
  /\ NoDecayData
  /\ NoLevelData
  /\ NoRecData
  /\ InitTables
  /\ watch = NoWatch

NextScat == BCoherentCall \/ BIncoherentCall

SpecScat == InitScat /\ [][NextScat]_vars

\* the memoizing accessors of the scattering and decay tables, reference
\* store available throughout: one of the two datasets has rows, and one call
\* on it is watched
MemoWatches(ops, args) == {<<op, arg>> : op \in ops, arg \in args}

InitMemo ==
  /\ store = "ok"
  /\ \/ /\ h5_scattering \in SeqUpTo(ScatRows, MaxScatRows)
        /\ NoDecayData
        /\ watch \in MemoWatches({"b_coherent", "b_incoherent"}, ScatQueryNucs)
     \/ /\ NoScatData
        /\ h5_half_life \in SeqUpTo(DecayRows, MaxDecayRows)
        /\ watch \in MemoWatches({"decay_const"}, DecayQueryNucs)
                       \cup MemoWatches({"branch_ratio"}, DecayQueryPairs)
  /\ NoMassData
  /\ NoGammaData
  /\ NoFpyData
  /\ NoLevelData
  /\ NoRecData
  /\ InitTables

NextMemo ==
  \/ BCoherentCall
  \/ BIncoherentCall
  \/ DecayConstCall
  \/ BranchRatioCall
  \/ DecayChildrenCall

SpecMemo == InitMemo /\ [][NextMemo]_vars

\* two threads enter the same accessor while its table is empty, reference
\* store available throughout
InitRace ==
  /\ store = "ok"
  /\ \E op \in ThreadOps :
       /\ IF op = "decay_const"
          THEN /\ h5_half_life \in SeqUpTo(DecayRows, MaxDecayRows)
               /\ NoScatData
          ELSE /\ h5_scattering \in SeqUpTo(ScatRows, MaxScatRows)
               /\ NoDecayData
       /\ threads \in [Threads -> {Entering(op, arg) : arg \in
                         IF op = "decay_const" THEN DecayQueryNucs
                         ELSE ScatQueryNucs}]
  /\ NoMassData
  /\ NoGammaData
  /\ NoFpyData
  /\ NoLevelData
  /\ NoRecData
  /\ EmptyTables
  /\ watch = NoWatch

NextRace ==
  \E t \in Threads :
    \/ ThreadFind(t)
    \/ ThreadTestEmpty(t)
    \/ ThreadLoad(t)
    \/ ThreadFallback(t)

SpecRace == InitRace /\ [][NextRace]_vars

\* decay records, reference store available throughout
InitRec ==
  /\ store = "ok"
  /\ h5_decays \in SeqUpTo(DecayRecRows, MaxRecRows)
  /\ NoMassData
  /\ NoGammaData
  /\ NoFpyData
  /\ NoScatData
  /\ NoDecayData
  /\ h5_level_list = <<>>
  /\ InitTables
  /\ watch = NoWatch

NextRec == DecayHalfLifesCall \/ DecayBranchRatioCall \/ DecayBranchRatiosCall

SpecRec == InitRec /\ [][NextRec]_vars

\* the bulk loads: one of the datasets has rows, possibly several for one
\* key, and the accessors of every table are called; reference store
\* available throughout
LoadTables == {"mass", "gamma", "wimsd", "nds", "scattering", "level", "decays"}

RowsIf(chosen, rows) == IF chosen THEN rows ELSE {<<>>}

InitLoad ==
  /\ store = "ok"
  /\ dbl_max_as_int = IntMax
  /\ \E which \in LoadTables :
       /\ h5_atomic_mass \in
            RowsIf(which = "mass", SeqUpTo(MassRows, MaxMassRows))
       /\ h5_gammas \in
            RowsIf(which = "gamma", SeqUpTo(GammaRows, MaxGammaRows))
       /\ h5_wimsd \in
            RowsIf(which = "wimsd", SeqUpTo(WimsRows, MaxWimsRows))
       /\ h5_nds \in
            RowsIf(which = "nds", SeqUpTo(NdsLoadRows, MaxWimsRows))
       /\ h5_scattering \in
            RowsIf(which = "scattering", SeqUpTo(ScatRows, MaxScatRows))
       /\ h5_level_list \in
            RowsIf(which = "level", SeqUpTo(LevelRows, MaxLevelRows))
       /\ h5_decays \in
            RowsIf(which = "decays", SeqUpTo(DecayRecRows, MaxRecRows))
  /\ NoDecayData
  /\ InitTables
  /\ watch = NoWatch

NextLoad ==
  \/ AtomicMassCall
  \/ GammaEnergyCall
  \/ FpyieldCall
  \/ BCoherentCall
  \/ HalfLifeCall
  \/ DecayBranchRatioCall

SpecLoad == InitLoad /\ [][NextLoad]_vars

\* level data, reference store available throughout
InitLevel ==
  /\ store = "ok"
  /\ h5_level_list \in SeqUpTo(LevelRows, MaxLevelRows)
  /\ NoRecData
  /\ NoMassData
  /\ NoGammaData
  /\ NoFpyData
  /\ NoScatData
  /\ NoDecayData
  /\ InitTables
  /\ watch = NoWatch

NextLevel == HalfLifeCall \/ StateEnergyCall \/ MetastableIdCall

SpecLevel == InitLevel /\ [][NextLevel]_vars

\* a reference store with a few rows in every dataset the propagating
\* accessors read
SampleScattering ==
  <<[nuc |-> 10030000, b_coherent |-> <<6, 0>>, b_incoherent |-> <<4, 1>>]>>
SampleHalfLife ==
  <<[from_nuc |-> 10030000, level |-> 0, to_nuc |-> 20030000, half_life |-> 12,
     decay_const |-> 3, branch_ratio |-> 1]>>
SampleLevelList ==
  <<[nuc_id |-> 10030000, level |-> 0, half_life |-> 12, metastable |-> 0],
    [nuc_id |-> 10030001, level |-> 2, half_life |-> 12, metastable |-> 1]>>
SampleWimsd ==
  <<[from_nuc |-> 922350000, to_nuc |-> 551370000, yields |-> 3]>>
SampleNds ==
  <<[from_nuc |-> 922350000, to_nuc |-> 551370000,
     sub |-> CHOOSE v \in NdsValues : TRUE]>>

\* scattering, decay, fission-yield and level accessors, the reference
\* store coming and going between calls
InitErr ==
  /\ store \in {"ok", "missing", "nothdf5"}
  /\ h5_scattering = SampleScattering
  /\ h5_half_life = SampleHalfLife
  /\ h5_level_list = SampleLevelList
  /\ h5_wimsd = SampleWimsd
  /\ h5_nds = SampleNds
  /\ NoMassData
  /\ NoRecData
  /\ NoGammaData
  /\ InitTables
  /\ watch = NoWatch

NextErr ==
  \/ BCoherentCall
  \/ BIncoherentCall
  \/ DecayConstCall
  \/ BranchRatioCall
  \/ DecayChildrenCall
  \/ FpyieldCall
  \/ HalfLifeCall
  \/ StateEnergyCall
  \/ MetastableIdCall
  \/ SetStore

SpecErr == InitErr /\ [][NextErr]_vars

\* ------------------------------------------------------------------------
\* Dataset helpers used by the properties
\* ------------------------------------------------------------------------
\* the ids the /atomic_mass dataset lists
ListedNucs == {h5_atomic_mass[i].nuc : i \in DOMAIN h5_atomic_mass}

\* the last row the dataset holds for a listed id (the row a bulk load keeps)
LastMassRow(nuc) ==
  h5_atomic_mass[CHOOSE i \in DOMAIN h5_atomic_mass :
                   /\ h5_atomic_mass[i].nuc = nuc
                   /\ \A j \in DOMAIN h5_atomic_mass :
                        h5_atomic_mass[j].nuc = nuc => j <= i]

IsExcited(nuc) == 0 < nuc % StateMod

\* the stored gamma lines of a parent, in ascending key order
GammaLinesOf(parent) ==
  SortedKeys({k \in DOMAIN gamma_data : k[1] = parent})

\* ------------------------------------------------------------------------
\* Properties
\* ------------------------------------------------------------------------

\* C1: after a successful load of the gamma table, gamma_energy(P) returns
\* exactly one pair per stored record of P, the i-th pair being the
\* (energy, energy_err) of the i-th stored record of P in ascending key order.
C1_GammaEnergyOfParent ==
  (ret.op = "gamma_energy" /\ ret.status = "ok") =>
    /\ Len(ret.val) = Len(GammaLinesOf(ret.arg))
    /\ \A i \in 1..Len(ret.val) :
         ret.val[i] = <<gamma_data[GammaLinesOf(ret.arg)[i]].energy,
                        gamma_data[GammaLinesOf(ret.arg)[i]].energy_err>>

\* C2: in every reachable state, for every excited-state id that is no row of
\* the mass dataset, atomic_mass(id) equals atomic_mass of its ground state.
C2_ExcitedEqualsGround ==
  \A nuc \in MassQueryNucs :
    (IsExcited(nuc) /\ nuc \notin ListedNucs) =>
      LET x == atomic_mass(nuc, atomic_mass_map, natural_abund_map, MaxDepth)
          g == atomic_mass(ground_id(nuc), atomic_mass_map, natural_abund_map,
                           MaxDepth)
      IN (x.status = "ok" /\ g.status = "ok") => x.val = g.val

\* C3: every returning call atomic_mass(id) returns the value the first call
\* atomic_mass(id) returned.
C3_AtomicMassSameAsFirst ==
  (ret.op = "atomic_mass" /\ ret.status = "ok"
     /\ <<ret.op, ret.arg>> \in DOMAIN first) =>
    ret.val = first[<<ret.op, ret.arg>>]

\* C5 as claimed: natural_abund(id) returns 0.0 for every id absent from the
\* dataset, ground state or excited state alike.
C5_AbsentAbundIsZero ==
  (ret.op = "natural_abund" /\ ret.status = "ok" /\ ret.arg \notin ListedNucs)
    => ret.val = 0

\* C5 amended: natural_abund(id) returns 0.0 for every ground-state id absent
\* from the dataset; for an absent excited-state id it returns the value
\* natural_abund holds for its ground-state id, which is 0.0 whenever the
\* ground state is absent from the dataset too.
C5_AbsentAbundGroundOrZero ==
  (ret.op = "natural_abund" /\ ret.status = "ok" /\ ret.arg \notin ListedNucs)
    => IF IsExcited(ret.arg)
       THEN /\ ground_id(ret.arg) \in DOMAIN natural_abund_map
            /\ ret.val = natural_abund_map[ground_id(ret.arg)]
            /\ ground_id(ret.arg) \notin ListedNucs => ret.val = 0
       ELSE ret.val = 0

\* C5 witness: an absent excited id whose call returned the non-zero
\* abundance of its listed ground state.
C5_Witness ==
  /\ ret.op = "natural_abund" /\ ret.status = "ok"
  /\ ret.arg \notin ListedNucs /\ IsExcited(ret.arg)
  /\ ground_id(ret.arg) \in ListedNucs
  /\ ret.val # 0

\* C6: for every id the dataset lists, atomic_mass(id) returns the mass and
\* natural_abund(id) the abundance of the id's row (its last row, should the
\* dataset repeat the id), on the call that triggers the load and on every
\* later call (so in particular before any fallback was synthesized).
C6_ListedValuesReturned ==
  (ret.status = "ok" /\ ret.arg \in ListedNucs) =>
    /\ ret.op = "atomic_mass" => ret.val = LastMassRow(ret.arg).mass
    /\ ret.op = "natural_abund" => ret.val = LastMassRow(ret.arg).abund

\* C6 witness: the first call, which loaded the tables, returned a listed
\* id's abundance.
C6_Witness ==
  /\ ret.op = "natural_abund" /\ ret.status = "ok"
  /\ ret.arg \in ListedNucs /\ ret.loads = 1
  /\ ret.val = LastMassRow(ret.arg).abund /\ ret.val # 0

\* C7: a call of atomic_mass or natural_abund during which the bulk loader
\* raises does not propagate the error: atomic_mass returns the mass number
\* of the id (also for an excited id) and natural_abund returns 0.0.
C7_LoadFailureSwallowed ==
  ret.fails > 0 =>
    /\ ret.op = "atomic_mass" =>
         ret.status = "ok" /\ ret.val = (ground_id(ret.arg) \div StateMod) % AnumMod
    /\ ret.op = "natural_abund" => ret.status = "ok" /\ ret.val = 0

\* C7 witness: atomic_mass of an excited id returned its mass number after
\* the loader raised for the id and again for its ground state.
C7_Witness ==
  /\ ret.op = "atomic_mass" /\ ret.fails = 2 /\ IsExcited(ret.arg)
  /\ ret.status = "ok" /\ ret.val = 2

\* the accessors without a try/catch around their bulk load
PropagatingOps == {"b_coherent", "b_incoherent", "decay_const", "branch_ratio",
                   "decay_children", "fpyield", "half_life", "state_energy",
                   "metastable_id"}
\* the accessors whose miss on a loaded table yields a plain default
DefaultingOps == {"decay_const", "branch_ratio", "decay_children", "fpyield"}
\* the exceptions of the bulk loaders
LoadErrors == {"FileNotFound", "FileNotHDF5"}
\* the default of a defaulting accessor
default_of(op) == IF op = "decay_children" THEN {} ELSE 0

\* C8: a call of b_coherent, b_incoherent, decay_const, branch_ratio,
\* decay_children, fpyield, half_life, state_energy or metastable_id (m # 0)
\* during which the bulk loader raises ends with that error reaching the
\* caller, after a single load attempt, not with a returned value.
C8_LoadErrorPropagates ==
  (ret.op \in PropagatingOps /\ ret.fails > 0) =>
    ret.status \in LoadErrors /\ ret.fails = 1 /\ ret.loads = 1

\* C8 witness: b_coherent ended with FileNotFound after its loader raised.
C8_Witness ==
  ret.op = "b_coherent" /\ ret.fails = 1 /\ ret.status = "FileNotFound"

C10_TableEmptyAfterFailedLoad ==
  [][ /\ (ret.op = "atomic_mass" /\ ret.fails > 0) =>
           /\ IsEmpty(atomic_mass_map)
           /\ ret'.op = "atomic_mass" => ret'.loads > 0
      /\ (ret.op = "natural_abund" /\ ret.fails > 0) =>
           /\ IsEmpty(natural_abund_map)
           /\ ret'.op = "natural_abund" => ret'.loads > 0 ]_vars

\* C4: every returning call fpyield(pair, source, get_error) returns the
\* value the first such call returned.
C4_FpyieldSameAsFirst ==
  (ret.op = "fpyield" /\ ret.status = "ok"
     /\ <<ret.op, ret.arg>> \in DOMAIN first) =>
    ret.val = first[<<ret.op, ret.arg>>]

\* every cache table of the process
cachevars == <<atomic_mass_map, natural_abund_map, gamma_data, wimsdfpy_data,
               ndsfpy_data, b_coherent_map, b_incoherent_map, decay_maps,
               level_data>>

\* the accessors that load on an empty table for every argument
RetryingOps == PropagatingOps \ {"metastable_id"}

\* the table an accessor call selects and tests for emptiness
\* (fpyield: the WIMS table for source 0, the richer table otherwise)
queried_table(op, arg) ==
  CASE op = "b_coherent" -> b_coherent_map
    [] op = "b_incoherent" -> b_incoherent_map
    [] op = "decay_const" -> decay_maps.dc
    [] op = "branch_ratio" -> decay_maps.br
    [] op = "decay_children" -> decay_maps.dch
    [] op = "fpyield" -> IF arg[2] = 0 THEN wimsdfpy_data ELSE ndsfpy_data
    [] op \in {"half_life", "state_energy", "metastable_id"} -> level_data
    [] OTHER -> EmptyMap

\* C11 as stated: a call of b_coherent, b_incoherent, decay_const,
\* branch_ratio, decay_children, fpyield, half_life or state_energy during
\* which the bulk loader raises leaves every cache table unchanged with the
\* queried table empty, and the next call of the same accessor, whatever its
\* arguments, invokes the loader again.
C11_FailedLoadLeavesNoTrace ==
  [][ /\ (store' = store /\ ret'.op \in RetryingOps /\ ret'.fails > 0) =>
           /\ UNCHANGED cachevars
           /\ IsEmpty(queried_table(ret'.op, ret'.arg))
      /\ (store' = store /\ ret.op \in RetryingOps /\ ret.fails > 0
             /\ ret'.op = ret.op) => ret'.loads > 0 ]_vars

\* C11 amended: such a call leaves every cache table unchanged; the table
\* it selected is still empty, except for fpyield, which may have selected
\* a loaded table and failed on the other one, still empty; the next call
\* of the same accessor invokes the loader again, for fpyield when it has
\* the same arguments (another fpyield call may be served by the table that
\* is loaded).
C11_FailedLoadRetriedOnSameCall ==
  [][ /\ (store' = store /\ ret'.op \in RetryingOps /\ ret'.fails > 0) =>
           /\ UNCHANGED cachevars
           /\ ret'.op # "fpyield" => IsEmpty(queried_table(ret'.op, ret'.arg))
           /\ ret'.op = "fpyield" =>
                IsEmpty(wimsdfpy_data) \/ IsEmpty(ndsfpy_data)
      /\ (store' = store /\ ret.op \in RetryingOps /\ ret.fails > 0
             /\ ret'.op = ret.op
             /\ (ret.op = "fpyield" => ret'.arg = ret.arg)) =>
           ret'.loads > 0 ]_vars

\* C11 witness: half_life reloads after a failed load: its last call ended
\* with the loader's error, the level table is empty and the store is
\* readable again.
C11_Witness ==
  /\ ret.op = "half_life" /\ ret.fails = 1 /\ ret.status \in LoadErrors
  /\ IsEmpty(level_data) /\ store = "ok"

\* C12: no bulk loader completes successfully more than once: once a
\* loader has filled its tables no later call runs it again.
C12_LoadedAtMostOnce ==
  \A l \in Loaders : loaded[l] # "again"

\* C13: a lookup that invokes a bulk loader, the store being readable,
\* invokes each loader once and returns, also when the dataset has no rows
\* (fpyield has two loaders and may invoke both).
C13_LoadsOnceAndReturns ==
  (ret.loads > 0 /\ ret.fails = 0) =>
    /\ ret.status = "ok"
    /\ ret.loads = 1 \/ (ret.op = "fpyield" /\ ret.loads = 2)
    /\ \A l \in Loaders : loaded[l] # "again"

\* the entries of a scattering table with the mass number of nuc
SameMassNumber(nuc, map) ==
  {k \in DOMAIN map : nucname_anum(k) = nucname_anum(nuc)}
\* the entries of a scattering table with the atomic number of nuc
SameAtomicNumber(nuc, map) ==
  {k \in DOMAIN map : nucname_znum(k) = nucname_znum(nuc)}

\* a step that is a call of op on an id missing from a non-empty table
ScatMiss(op, map) ==
  ret'.op = op /\ ~IsEmpty(map) /\ ret'.arg \notin DOMAIN map

\* the value the claim expects from a miss on a non-empty table
expected_scattering(nuc, map) ==
  IF SameMassNumber(nuc, map) # {}
  THEN map[FirstKey(SameMassNumber(nuc, map))]
  ELSE IF SameAtomicNumber(nuc, map) # {}
  THEN map[FirstKey(SameAtomicNumber(nuc, map))]
  ELSE <<0, 0>>

\* the precedence case: some entry matches nuc by mass number only and
\* another by atomic number only
BothMatches(nuc, map) ==
  /\ SameMassNumber(nuc, map) \ SameAtomicNumber(nuc, map) # {}
  /\ SameAtomicNumber(nuc, map) \ SameMassNumber(nuc, map) # {}

\* C14: on a non-empty table lacking X, with one entry matching X by mass
\* number only and another by atomic number only, b_coherent(X) and
\* b_incoherent(X) return the value of a mass-number match, whether that
\* entry's id is below or above the atomic-number match's.
C14_MassNumberMatchPreferred ==
  [][ /\ (ScatMiss("b_coherent", b_coherent_map)
           /\ BothMatches(ret'.arg, b_coherent_map)) =>
          /\ ret'.status = "ok"
          /\ \E k \in SameMassNumber(ret'.arg, b_coherent_map) :
                ret'.val = b_coherent_map[k]
      /\ (ScatMiss("b_incoherent", b_incoherent_map)
           /\ BothMatches(ret'.arg, b_incoherent_map)) =>
          /\ ret'.status = "ok"
          /\ \E k \in SameMassNumber(ret'.arg, b_incoherent_map) :
                ret'.val = b_incoherent_map[k] ]_vars

\* C14 witness: b_coherent returned the value of a mass-number match whose
\* id is above that of an atomic-number match holding another value, and
\* memoized it.
C14_Witness ==
  /\ ret.op = "b_coherent" /\ ret.arg = 20030000 /\ ret.status = "ok"
  /\ 30030000 \in DOMAIN b_coherent_map
  /\ 20040000 \in DOMAIN b_coherent_map
  /\ 10030000 \notin DOMAIN b_coherent_map
  /\ ret.val = b_coherent_map[30030000]
  /\ ret.val # b_coherent_map[20040000]

\* C15: on a non-empty table lacking X, b_coherent(X) returns the value of
\* the lowest-id entry with X's mass number, else of the lowest-id entry
\* with X's atomic number, else complex zero, and stores it under X in the
\* coherent table only; b_incoherent does the same on the incoherent table.
C15_FallbackScanAndStore ==
  [][ /\ ScatMiss("b_coherent", b_coherent_map) =>
          /\ ret'.status = "ok"
          /\ ret'.val = expected_scattering(ret'.arg, b_coherent_map)
          /\ b_coherent_map' = Put(b_coherent_map, ret'.arg, ret'.val)
          /\ b_incoherent_map' = b_incoherent_map
      /\ ScatMiss("b_incoherent", b_incoherent_map) =>
          /\ ret'.status = "ok"
          /\ ret'.val = expected_scattering(ret'.arg, b_incoherent_map)
          /\ b_incoherent_map' = Put(b_incoherent_map, ret'.arg, ret'.val)
          /\ b_coherent_map' = b_coherent_map ]_vars

\* C15 witness: b_incoherent found no entry with the mass number or the
\* atomic number of helium-3, returned complex zero and stored it in the
\* incoherent table, the coherent table not holding the id.
C15_Witness ==
  /\ ret.op = "b_incoherent" /\ ret.arg = 20030000 /\ ret.status = "ok"
  /\ ret.val = <<0, 0>>
  /\ DOMAIN b_incoherent_map = {20030000, 30070000}
  /\ b_incoherent_map[20030000] = <<0, 0>>
  /\ 20030000 \notin DOMAIN b_coherent_map

\* the parents and the (parent, daughter) pairs of the decay dataset
DecayParents == {h5_half_life[i].from_nuc : i \in 1..Len(h5_half_life)}
DecayPairs ==
  {<<h5_half_life[i].from_nuc, h5_half_life[i].to_nuc>> :
     i \in 1..Len(h5_half_life)}

\* a step that is a returning call of op whose key is in neither the table
\* nor, if the table is yet to be loaded, the dataset
DecayMiss(op, map, listed) ==
  /\ ret'.op = op /\ ret'.status = "ok"
  /\ ret'.arg \notin DOMAIN map
  /\ IsEmpty(map) => ret'.arg \notin listed

\* C16: every returning call of decay_const, branch_ratio or decay_children
\* on a key absent from the loaded table returns 0.0, 0.0 or the empty set,
\* and stores it under the key in its own table; a call that did not have
\* to load changes nothing else, and a call that loaded leaves the key out
\* of the other tables.
C16_DecayDefaults ==
  [][ /\ DecayMiss("decay_const", decay_maps.dc, DecayParents) =>
          /\ ret'.val = 0
          /\ ret'.arg \in DOMAIN decay_maps'.dc
          /\ decay_maps'.dc[ret'.arg] = 0
          /\ ret'.loads = 0 =>
                decay_maps' = [decay_maps EXCEPT !.dc = Put(@, ret'.arg, 0)]
          /\ ret'.loads > 0 =>
                ret'.arg \notin DOMAIN decay_maps'.dch
                               \cup DOMAIN decay_maps'.hl
                               \cup DOMAIN decay_maps'.se
      /\ DecayMiss("branch_ratio", decay_maps.br, DecayPairs) =>
          /\ ret'.val = 0
          /\ ret'.arg \in DOMAIN decay_maps'.br
          /\ decay_maps'.br[ret'.arg] = 0
          /\ ret'.loads = 0 =>
                decay_maps' = [decay_maps EXCEPT !.br = Put(@, ret'.arg, 0)]
      /\ DecayMiss("decay_children", decay_maps.dch, DecayParents) =>
          /\ ret'.val = {}
          /\ ret'.arg \in DOMAIN decay_maps'.dch
          /\ decay_maps'.dch[ret'.arg] = {}
          /\ ret'.loads = 0 =>
                decay_maps' = [decay_maps EXCEPT !.dch = Put(@, ret'.arg, {})]
          /\ ret'.loads > 0 =>
                ret'.arg \notin DOMAIN decay_maps'.dc
                               \cup DOMAIN decay_maps'.hl
                               \cup DOMAIN decay_maps'.se ]_vars

\* C16 witness: decay_children of an id that is no parent returned the empty
\* set from a loaded table and stored it, the decay constants not holding
\* the id.
C16_Witness ==
  /\ ret.op = "decay_children" /\ ret.arg = 20030000 /\ ret.status = "ok"
  /\ ret.val = {} /\ ret.loads = 0
  /\ 10030000 \in DOMAIN decay_maps.dch
  /\ decay_maps.dch[20030000] = {}
  /\ 20030000 \notin DOMAIN decay_maps.dc

\* the index of the row of the decay dataset that wins among the rows
\* `mine`: the last of them with level 0, else the first of them
winning_row(mine) ==
  LET ground == {i \in mine : h5_half_life[i].level = 0}
  IN IF ground # {}
     THEN CHOOSE i \in ground : \A j \in ground : j <= i
     ELSE CHOOSE i \in mine : \A j \in mine : i <= j

\* the rows of a parent, and of a (parent, daughter) pair
RowsOfParent(p) ==
  {i \in 1..Len(h5_half_life) : h5_half_life[i].from_nuc = p}
RowsOfPair(pd) ==
  {i \in 1..Len(h5_half_life) :
     h5_half_life[i].from_nuc = pd[1] /\ h5_half_life[i].to_nuc = pd[2]}

\* C17: once the decay dataset is loaded, the half life and the decay
\* constant stored for a parent are those of its last row with level 0 if
\* it has one, else those of its first row; the same holds for the branch
\* ratio of each (parent, daughter) pair.
C17_GroundOrFirstRowWins ==
  loaded["_load_half_life_decay"] # "never" =>
    /\ \A p \in DecayParents :
         /\ p \in DOMAIN decay_maps.dc
         /\ decay_maps.dc[p] =
              h5_half_life[winning_row(RowsOfParent(p))].decay_const
         /\ p \in DOMAIN decay_maps.hl
         /\ decay_maps.hl[p] =
              h5_half_life[winning_row(RowsOfParent(p))].half_life
    /\ \A pd \in DecayPairs :
         /\ pd \in DOMAIN decay_maps.br
         /\ decay_maps.br[pd] =
              h5_half_life[winning_row(RowsOfPair(pd))].branch_ratio

\* C17 witness: a later row with a non-zero level did not replace the decay
\* constant of the ground-state row before it.
C17_Witness ==
  /\ Len(h5_half_life) = 2
  /\ h5_half_life[1].level = 0 /\ h5_half_life[2].level # 0
  /\ h5_half_life[1].decay_const # h5_half_life[2].decay_const
  /\ 10030000 \in DOMAIN decay_maps.dc
  /\ decay_maps.dc[10030000] = h5_half_life[1].decay_const

\* the pair, the source and the get_error flag of the fpyield call that
\* a step makes
FpyPair == ret'.arg[1]
FpySource == ret'.arg[2]
FpyGetError == ret'.arg[3]

\* C18: an fpyield call whose pair is in the selected table returns the
\* WIMS yield for source 0 whatever get_error is, and for sources 1, 2, 3
\* the thermal, fast, 14 MeV yield or, with get_error, its error; the hit
\* modifies no table and loads nothing.
C18_HitReturnsSelectedField ==
  [][ ret'.op = "fpyield" =>
        /\ (FpySource = 0 /\ FpyPair \in DOMAIN wimsdfpy_data) =>
              /\ ret'.status = "ok" /\ ret'.loads = 0
              /\ ret'.val = wimsdfpy_data[FpyPair]
              /\ UNCHANGED cachevars
        /\ (FpySource \in 1..3 /\ FpyPair \in DOMAIN ndsfpy_data) =>
              /\ ret'.status = "ok" /\ ret'.loads = 0
              /\ ret'.val =
                   LET sub == ndsfpy_data[FpyPair] IN
                   CASE FpySource = 1 /\ ~FpyGetError -> sub.yield_thermal
                     [] FpySource = 1 /\ FpyGetError -> sub.yield_thermal_err
                     [] FpySource = 2 /\ ~FpyGetError -> sub.yield_fast
                     [] FpySource = 2 /\ FpyGetError -> sub.yield_fast_err
                     [] FpySource = 3 /\ ~FpyGetError -> sub.yield_14MeV
                     [] FpySource = 3 /\ FpyGetError -> sub.yield_14MeV_err
              /\ UNCHANGED cachevars ]_vars

\* C18 witness: fpyield returned the error of the 14 MeV yield from the
\* loaded richer table without loading.
C18_Witness ==
  /\ ret.op = "fpyield" /\ ret.status = "ok" /\ ret.loads = 0
  /\ ret.arg[2] = 3 /\ ret.arg[3] = TRUE
  /\ ret.arg[1] \in DOMAIN ndsfpy_data
  /\ ret.val = ndsfpy_data[ret.arg[1]].yield_14MeV_err

\* a step that is an fpyield call for source 1, 2 or 3 missing the richer
\* table
RicherMiss ==
  /\ ret'.op = "fpyield" /\ FpySource \in 1..3
  /\ FpyPair \notin DOMAIN ndsfpy_data

\* C19 as stated: an fpyield call for source 1, 2 or 3 that misses while
\* the WIMS table is empty bulk-loads the WIMS table.
C19_WimsLoadedFirst ==
  [][ (RicherMiss /\ IsEmpty(wimsdfpy_data)) =>
        loaded'["_load_wimsdfpy"] # loaded["_load_wimsdfpy"] ]_vars

\* C19 amended: an fpyield call for source 1, 2 or 3 never runs the WIMS
\* loader, whether the WIMS table is empty or not; on a miss it loads the
\* richer table if that one is empty, and only a source-0 call made on an
\* empty WIMS table loads the WIMS table.
C19_SourceSelectsLoader ==
  [][ /\ (ret'.op = "fpyield" /\ FpySource \in 1..3) =>
          loaded'["_load_wimsdfpy"] = loaded["_load_wimsdfpy"]
      /\ (RicherMiss /\ IsEmpty(ndsfpy_data)) =>
          loaded'["_load_ndsfpy"] # loaded["_load_ndsfpy"]
      /\ (ret'.op = "fpyield"
            /\ loaded'["_load_wimsdfpy"] # loaded["_load_wimsdfpy"]) =>
          FpySource = 0 /\ IsEmpty(wimsdfpy_data) ]_vars

\* C19 witness: a source-2 call loaded the richer table and returned from
\* it, the WIMS table being empty before and after.
C19_Witness ==
  /\ ret.op = "fpyield" /\ ret.arg[2] = 2 /\ ret.status = "ok"
  /\ ret.loads = 1
  /\ IsEmpty(wimsdfpy_data) /\ ~IsEmpty(ndsfpy_data)
  /\ loaded["_load_wimsdfpy"] = "never" /\ loaded["_load_ndsfpy"] = "once"

\* the pairs of the richer dataset
NdsPairs == {<<h5_nds[i].from_nuc, h5_nds[i].to_nuc>> : i \in 1..Len(h5_nds)}

\* a step that is an fpyield call reaching the final fallback at once: the
\* pair is not in the selected table and no table is left to load
FinalFallback ==
  /\ ret'.op = "fpyield"
  /\ FpySource = 0 => FpyPair \notin DOMAIN wimsdfpy_data
  /\ FpySource # 0 => FpyPair \notin DOMAIN ndsfpy_data
  /\ ~(FpySource = 0 /\ IsEmpty(wimsdfpy_data))
  /\ ~IsEmpty(ndsfpy_data)

\* C20: an fpyield call that reaches the final fallback returns 0.0 and
\* stores 0.0 under the pair in the WIMS table, whatever the source, and
\* leaves the richer table as it was; no fpyield call puts into the richer
\* table a pair that its dataset does not list.
C20_FallbackWritesWims ==
  [][ /\ FinalFallback =>
          /\ ret'.status = "ok" /\ ret'.val = 0 /\ ret'.loads = 0
          /\ wimsdfpy_data' = Put(wimsdfpy_data, FpyPair, 0)
          /\ ndsfpy_data' = ndsfpy_data
      /\ ret'.op = "fpyield" =>
          /\ DOMAIN ndsfpy_data' \subseteq NdsPairs
          /\ (ret'.status = "ok" /\ ret'.loads > 0
               /\ ~fpy_hit(FpyPair, FpySource, wimsdfpy_data', ndsfpy_data')) =>
                ret'.val = 0 ]_vars

\* C20 witness: a source-3 call on a pair missing from the loaded richer
\* table returned 0.0 and left it in the WIMS table, which was never
\* loaded.
C20_Witness ==
  /\ ret.op = "fpyield" /\ ret.arg[2] = 3 /\ ret.status = "ok"
  /\ ret.val = 0 /\ ret.loads = 0
  /\ ~IsEmpty(ndsfpy_data) /\ ret.arg[1] \notin DOMAIN ndsfpy_data
  /\ wimsdfpy_data = Put(EmptyMap, ret.arg[1], 0)
  /\ loaded["_load_wimsdfpy"] = "never"

\* the ids of the level dataset, and the row the load keeps for an id: the
\* last one
LevelIds == {h5_level_list[i].nuc_id : i \in 1..Len(h5_level_list)}
LastLevelRow(nuc) ==
  h5_level_list[CHOOSE i \in 1..Len(h5_level_list) :
                  /\ h5_level_list[i].nuc_id = nuc
                  /\ \A j \in 1..Len(h5_level_list) :
                       h5_level_list[j].nuc_id = nuc => j <= i]

\* C21: every returning call state_energy(id) for an id of the level
\* dataset returns the level energy of the id's row, the call that triggers
\* the bulk load included.
C21_StateEnergyOfRow ==
  (ret.op = "state_energy" /\ ret.status = "ok" /\ ret.arg \in LevelIds) =>
    ret.val = LastLevelRow(ret.arg).level

\* C22: every returning call half_life(id) for an id of the level dataset
\* returns the half_life field of the id's row, the call that triggers the
\* bulk load included.
C22_HalfLifeOfRow ==
  (ret.op = "half_life" /\ ret.status = "ok" /\ ret.arg \in LevelIds) =>
    ret.val = LastLevelRow(ret.arg).half_life

\* C22 witness: the half_life call that loaded the level table returned the
\* half life of a row.
C22_Witness ==
  /\ ret.op = "half_life" /\ ret.status = "ok" /\ ret.loads = 1
  /\ ret.arg \in LevelIds /\ ret.val = 13

\* C23: a call of state_energy or half_life on an id absent from the level
\* dataset, the dataset having rows and the load succeeding, returns 0.0 and
\* inserts nothing: the table afterwards holds the loaded rows, no more.
C23_LevelMissInsertsNothing ==
  [][ (ret'.op \in {"state_energy", "half_life"}
        /\ ret'.arg \notin LevelIds /\ h5_level_list # <<>>) =>
        /\ ret'.status = "ok" /\ ret'.val = 0
        /\ DOMAIN level_data' = LevelIds
        /\ \A k \in LevelIds : level_data'[k] = LastLevelRow(k)
        /\ ~IsEmpty(level_data) => level_data' = level_data ]_vars

\* C23 witness: half_life of an id without a row returned 0.0 from the
\* loaded table, which does not hold the id.
C23_Witness ==
  /\ ret.op = "half_life" /\ ret.status = "ok" /\ ret.val = 0
  /\ ret.loads = 0 /\ ~IsEmpty(level_data)
  /\ ret.arg \notin DOMAIN level_data

\* the ground-state id of an id, and the keys of the level table in its
\* 10,000-wide block whose metastable ordinal is m
GroundBlock(nuc, m) ==
  {k \in DOMAIN level_data :
     /\ ground_id(nuc) <= k /\ k <= ground_id(nuc) + MetaSpan
     /\ level_data[k].metastable = m}

\* C24: for m # 0, metastable_id(id, m) returns the smallest key of the
\* level table within the block of id's ground state, g = (id / 10000) *
\* 10000 up to g + 9999, whose metastable ordinal is m, and 0 when there is
\* none.
C24_MetastableOfGroundBlock ==
  (ret.op = "metastable_id" /\ ret.status = "ok" /\ ret.arg[2] # 0) =>
    ret.val = IF GroundBlock(ret.arg[1], ret.arg[2]) # {}
              THEN FirstKey(GroundBlock(ret.arg[1], ret.arg[2]))
              ELSE 0

\* C25: metastable_id(id, 0) returns 0 for every id in every state, the
\* store readable or not, without running a loader and without changing a
\* table.
C25_GroundOrdinalIsZero ==
  [][ (ret'.op = "metastable_id" /\ ret'.arg[2] = 0) =>
        /\ ret'.status = "ok" /\ ret'.val = 0
        /\ ret'.loads = 0 /\ ret'.fails = 0
        /\ UNCHANGED cachevars
        /\ UNCHANGED loaded ]_vars

\* C25 witness: metastable_id(id, 0) returned 0 while the store was not
\* readable and the level table not loaded.
C25_Witness ==
  /\ ret.op = "metastable_id" /\ ret.arg[2] = 0
  /\ ret.status = "ok" /\ ret.val = 0
  /\ store # "ok" /\ IsEmpty(level_data)
  /\ loaded["_load_level_data"] = "never"

\* the range queries of the gamma table
GammaRangeOps == {"gamma_energy", "gamma_parent"}

\* the stored gamma lines whose energy d satisfies E - eps <= d <= E + eps
LinesInWindow(energy, error) ==
  {k \in DOMAIN gamma_data : energy - error <= k[2] /\ k[2] <= energy + error}

\* the stored gamma lines the range query last answered is about
MatchedLines ==
  IF ret.op = "gamma_energy" THEN {k \in DOMAIN gamma_data : k[1] = ret.arg}
  ELSE LinesInWindow(ret.arg[1], ret.arg[2])

\* C26: no range query changes a table that has been loaded, and a range
\* query that returns with no stored record matching it returns the empty
\* sequence.
C26_RangeQueriesSynthesizeNothing ==
  [][(ret'.op \in GammaRangeOps /\ ret'.status = "ok") =>
       /\ (~IsEmpty(gamma_data) => gamma_data' = gamma_data)
       /\ (MatchedLines' = {} => ret'.val = <<>>)]_vars

\* C27: after a successful load, gamma_parent(E, eps) returns the parent id
\* of exactly the stored lines whose energy d satisfies
\* E - eps <= d <= E + eps, one entry per line.
C27_WindowSelectsByEnergy ==
  (ret.op = "gamma_parent" /\ ret.status = "ok") =>
    /\ Len(ret.val) = Cardinality(LinesInWindow(ret.arg[1], ret.arg[2]))
    /\ \A parent \in GammaParents :
         Cardinality({i \in 1..Len(ret.val) : ret.val[i] = parent}) =
         Cardinality({k \in LinesInWindow(ret.arg[1], ret.arg[2]) :
                        k[1] = parent})

\* the accessors whose fallback memoizes a value
MemoOps == {"b_coherent", "b_incoherent", "decay_const", "branch_ratio"}

\* every entry of table m is an entry of table n
KeepsEntries(m, n) ==
  \A k \in DOMAIN m : k \in DOMAIN n /\ n[k] = m[k]

\* C28: with the store readable, every returning call of b_coherent,
\* b_incoherent, decay_const or branch_ratio returns the value the first
\* returning call with that key returned, and no step of the program removes
\* or overwrites an entry of the four tables.
C28_MemoizedValuesAreStable ==
  /\ [](  (ret.op \in MemoOps /\ ret.status = "ok"
            /\ <<ret.op, ret.arg>> \in DOMAIN first) =>
          ret.val = first[<<ret.op, ret.arg>>])
  /\ [][  /\ KeepsEntries(b_coherent_map, b_coherent_map')
          /\ KeepsEntries(b_incoherent_map, b_incoherent_map')
          /\ KeepsEntries(decay_maps.dc, decay_maps'.dc)
          /\ KeepsEntries(decay_maps.br, decay_maps'.br) ]_vars

\* C28 witness: a call answered from a memoized fallback entry, a key that
\* is no row of the dataset, without loading.
C28_Witness ==
  /\ ret.op = "b_coherent" /\ ret.status = "ok" /\ ret.loads = 0
  /\ <<ret.op, ret.arg>> \in DOMAIN first
  /\ \A i \in 1..Len(h5_scattering) : h5_scattering[i].nuc # ret.arg
  /\ ret.val # complex_zero
  /\ ret.val = b_coherent_map[ret.arg]
  /\ \E k \in DOMAIN b_incoherent_map :
       \A i \in 1..Len(h5_scattering) : h5_scattering[i].nuc # k

\* C29: with a mass dataset of at least one row loaded without error, a call
\* atomic_mass(id) for an id that is neither a row nor an entry of the
\* atomic-mass table returns, for an excited id, the mass the table holds for
\* its ground-state id, and otherwise the mass number (id / 10000) % 1000; the
\* returned value is stored under id.
C29_AbsentMassFallback ==
  [][(/\ ret'.op = "atomic_mass" /\ ret'.status = "ok" /\ ret'.fails = 0
      /\ h5_atomic_mass # <<>>
      /\ ret'.arg \notin ListedNucs
      /\ ret'.arg \notin DOMAIN atomic_mass_map) =>
       /\ ret'.arg \in DOMAIN atomic_mass_map'
       /\ atomic_mass_map'[ret'.arg] = ret'.val
       /\ IF IsExcited(ret'.arg)
          THEN /\ ground_id(ret'.arg) \in DOMAIN atomic_mass_map'
               /\ ret'.val = atomic_mass_map'[ground_id(ret'.arg)]
          ELSE ret'.val = (ret'.arg \div StateMod) % AnumMod]_vars

\* C29 witness: an absent excited id answered with, and stored as, the mass
\* of its listed ground state, next to an absent ground-state id stored as
\* its mass number.
C29_Witness ==
  /\ ret.op = "atomic_mass" /\ ret.status = "ok"
  /\ IsExcited(ret.arg) /\ ret.arg \notin ListedNucs
  /\ ground_id(ret.arg) \in ListedNucs
  /\ ret.val = LastMassRow(ground_id(ret.arg)).mass
  /\ atomic_mass_map[ret.arg] = ret.val
  /\ \E nuc \in DOMAIN atomic_mass_map :
       /\ ~IsExcited(nuc) /\ nuc \notin ListedNucs
       /\ atomic_mass_map[nuc] = (nuc \div StateMod) % AnumMod

\* C30: two unsynchronized threads in the same accessor: a thread that has
\* seen the table empty runs the bulk loader whatever the other thread has
\* done to the table since, so that once both threads have seen the table
\* empty and both have returned, the loader of that table has run more than
\* once.
C30_BothLoadAfterSeeingEmpty ==
  (\A t \in Threads : threads[t].saw_empty /\ threads[t].pc = "returned") =>
    \A t \in Threads : loaded[thread_loader(threads[t].op)] = "again"

\* C30 witness: both threads saw the empty table, each ran the loader exactly
\* once on a dataset that fills the table, and both returned.
C30_Witness ==
  /\ \A t \in Threads :
       /\ threads[t].op = "decay_const"
       /\ threads[t].saw_empty /\ threads[t].depth = 1
       /\ threads[t].pc = "returned"
  /\ loaded["_load_half_life_decay"] = "again"
  /\ ~IsEmpty(decay_maps.dc)

\* the stored decay records of a parent, in ascending daughter order
RecordsOf(parent) ==
  SortedKeys({k \in DOMAIN decay_data : k[1] = parent})

\* C37: decay_branch_ratios(parent) returns, for each stored record of the
\* parent in ascending daughter order, the branch_ratio field of that record,
\* the value decay_branch_ratio((parent, daughter)) returns.
C37_BranchRatiosOfParent ==
  (ret.op = "decay_branch_ratios" /\ ret.status = "ok") =>
    /\ Len(ret.val) = Len(RecordsOf(ret.arg))
    /\ \A i \in 1..Len(ret.val) :
         /\ ret.val[i] = decay_data[RecordsOf(ret.arg)[i]].branch_ratio
         /\ ret.val[i] = decay_branch_ratio(RecordsOf(ret.arg)[i],
                                            decay_data).val

\* C38: after a successful load, decay_half_lifes(parent) returns one
\* (half_life, half_life_error) pair per stored record of the parent, the
\* i-th pair projected from the i-th record in ascending daughter order.
C38_HalfLifesOfParent ==
  (ret.op = "decay_half_lifes" /\ ret.status = "ok") =>
    /\ Len(ret.val) = Len(RecordsOf(ret.arg))
    /\ \A i \in 1..Len(ret.val) :
         ret.val[i] = <<decay_data[RecordsOf(ret.arg)[i]].half_life,
                        decay_data[RecordsOf(ret.arg)[i]].half_life_error>>

\* the greatest index of a non-empty set of row indices
LastOf(S) == CHOOSE i \in S : \A j \in S : j <= i

\* the keys of the rows of the datasets
GammaKey(i) == <<h5_gammas[i].parent_nuc, h5_gammas[i].energy>>
WimsKey(i) == <<h5_wimsd[i].from_nuc, h5_wimsd[i].to_nuc>>
NdsKey(i) == <<h5_nds[i].from_nuc, h5_nds[i].to_nuc>>
RecKey(i) == <<h5_decays[i].parent, h5_decays[i].daughter>>

\* the bulk loader has run
HasRun(loader) == loaded[loader] # "never"

WimsRowsOf(pair) == {i \in DOMAIN h5_wimsd : WimsKey(i) = pair}

\* C32: with the store readable, every returning call fpyield(pair, 0, e)
\* for a pair that is a row of the WIMS dataset returns the yield of that
\* row, whatever fpyield calls came before.
C32_WimsYieldSurvivesFallbacks ==
  (ret.op = "fpyield" /\ ret.status = "ok" /\ ret.arg[2] = 0
     /\ WimsRowsOf(ret.arg[1]) # {}) =>
    ret.val = h5_wimsd[LastOf(WimsRowsOf(ret.arg[1]))].yields

\* C33: when atomic_mass has synthesized and memoized a value for an id
\* while the store could not be read, the atomic-mass table still holds that
\* value under the id, and so atomic_mass still returns it, after any step
\* that follows: a call of atomic_mass or natural_abund, or the store
\* becoming readable.
C33_SynthesizedMassPersists ==
  [][(ret.op = "atomic_mass" /\ ret.status = "ok" /\ ret.fails > 0) =>
       /\ ret.arg \in DOMAIN atomic_mass_map'
       /\ atomic_mass_map'[ret.arg] = ret.val]_vars

\* the scattering tables right after the bulk load of the dataset
FreshScat == load_scat_rows(h5_scattering, EmptyMap, EmptyMap)

\* the ids of the scattering dataset
ScatIds == {h5_scattering[i].nuc : i \in DOMAIN h5_scattering}

\* C34: the value b_coherent(X) or b_incoherent(X) returns for an id X that
\* is no row of the scattering dataset is the value the call returns when it
\* is the first call after the load, whatever ids were queried before it.
C34_GuessIndependentOfHistory ==
  (ret.status = "ok" /\ ret.arg \notin ScatIds) =>
    /\ ret.op = "b_coherent" =>
         ret.val = b_coherent(ret.arg, FreshScat.bc, FreshScat.bi, MaxDepth).val
    /\ ret.op = "b_incoherent" =>
         ret.val = b_incoherent(ret.arg, FreshScat.bc, FreshScat.bi,
                                MaxDepth).val

\* two ids of the same nuclide: equal atomic and mass number
SameNuclide(a, b) == a \div StateMod = b \div StateMod

\* C35: for m # 0, metastable_id(id, m) returns what it returns for every
\* other id of the same nuclide, and a non-zero result is an id of the
\* nuclide of the argument.
C35_MetastableIgnoresStateField ==
  (ret.op = "metastable_id" /\ ret.status = "ok" /\ ret.arg[2] # 0) =>
    /\ \A other \in LevelQueryNucs :
         SameNuclide(other, ret.arg[1]) =>
           metastable_id(other, ret.arg[2], level_data).val = ret.val
    /\ ret.val # 0 => SameNuclide(ret.val, ret.arg[1])

\* no row of the decay dataset has a non-zero decay constant
AllStable == \A i \in DOMAIN h5_half_life : h5_half_life[i].decay_const = 0

\* C36: with a readable store and a decay dataset of at least one row, every
\* call of decay_children returns; when no row has a non-zero decay constant
\* it returns the empty set and the call has run the loader at most once.
C36_DecayChildrenTerminates ==
  (ret.op = "decay_children" /\ h5_half_life # <<>>) =>
    /\ ret.status = "ok"
    /\ AllStable => (ret.val = {} /\ ret.loads <= 1)

====
